---- MODULE Spec2Model ----
(***************************************************************************)
(* Style Finder API: the extraction and normalisation pipeline             *)
(* (colour collector, gradient parser, typography grouper) as a state      *)
(* machine.  A JavaScript string is a sequence of one-character strings,   *)
(* so that formatting, parsing and key concatenation are computed the way  *)
(* the code computes them.                                                 *)
(***************************************************************************)
EXTENDS Integers, Sequences, FiniteSets, TLC

VARIABLES phase, page, authored, colors, rawGradients, gradients, typography, meta,
          title, pending, run, previous, snapshot,
          cache, clock, requests, response, served, env, handlers, browsers

vars == <<phase, page, authored, colors, rawGradients, gradients, typography, meta,
          title, pending, run, previous, snapshot,
          cache, clock, requests, response, served, env, handlers, browsers>>

\* The state of a scrape: the title read, the extractions still running, the
\* number of the run, the result of the first run, the document as it was loaded.
scrapeVars == <<title, pending, run, previous, snapshot>>

\* The state of the server: the cache Map, Date.now(), the requests whose browser
\* is running, the last response sent, the number of requests received.
serverVars == <<cache, clock, requests, response, served, env, handlers, browsers>>

\* process.env as dotenv leaves it, the progress of each call of scrapeWebsite,
\* and the browser each call has launched.
handlerVars == <<env, handlers, browsers>>

(***************************************************************************)
(* Bounds of the model.                                                    *)
(***************************************************************************)
MaxValues == 3

\* Requests received in a behaviour, and the span of the clock in TTLs.
MaxRequests == 2

MaxHours == 1

(***************************************************************************)
(* JavaScript string primitives.                                           *)
(***************************************************************************)
NaN == 0 - 1

Min(a, b) == IF a < b THEN a ELSE b

Max(a, b) == IF a > b THEN a ELSE b

DigitChars == <<"0", "1", "2", "3", "4", "5", "6", "7", "8", "9">>

LowerHexChars == DigitChars \o <<"a", "b", "c", "d", "e", "f">>

UpperHexChars == DigitChars \o <<"A", "B", "C", "D", "E", "F">>

LowerLetters == {"a", "b", "c", "d", "e", "f", "g", "h", "i", "j", "k", "l", "m",
                 "n", "o", "p", "q", "r", "s", "t", "u", "v", "w", "x", "y", "z"}

UpperLetters == {"A", "B", "C", "D", "E", "F", "G", "H", "I", "J", "K", "L", "M",
                 "N", "O", "P", "Q", "R", "S", "T", "U", "V", "W", "X", "Y", "Z"}

Range(s) == {s[i] : i \in 1..Len(s)}

IsDigit(c) == c \in Range(DigitChars)

IsHexDigit(c) == c \in Range(LowerHexChars) \cup Range(UpperHexChars)

IsLetter(c) == c \in LowerLetters \cup UpperLetters

IsSpace(c) == c = " "

DigitVal(c) == (CHOOSE i \in 1..10 : DigitChars[i] = c) - 1

HexVal(c) ==
  IF c \in Range(LowerHexChars)
  THEN (CHOOSE i \in 1..16 : LowerHexChars[i] = c) - 1
  ELSE (CHOOSE i \in 1..16 : UpperHexChars[i] = c) - 1

\* String.prototype.substring(a, b): 0-based, end exclusive, arguments clamped.
Substring(s, a, b) ==
  LET lo == Max(0, Min(Min(a, b), Len(s)))
      hi == Max(0, Min(Max(a, b), Len(s)))
  IN  SubSeq(s, lo + 1, hi)

SubstringFrom(s, a) == Substring(s, a, Len(s))

\* String.prototype.charAt(i): the empty string out of range.
CharAt(s, i) == IF i >= 0 /\ i < Len(s) THEN <<s[i + 1]>> ELSE <<>>

StartsWith(s, p) == Len(s) >= Len(p) /\ SubSeq(s, 1, Len(p)) = p

EndsWith(s, p) == Len(s) >= Len(p) /\ SubSeq(s, Len(s) - Len(p) + 1, Len(s)) = p

Includes(s, p) == \E i \in 1..(Len(s) - Len(p) + 1) : SubSeq(s, i, i + Len(p) - 1) = p

\* String.prototype.indexOf(c) and lastIndexOf(c) for a one-character c: 0-based, -1 when absent.
IndexOf(s, c) ==
  IF \E i \in 1..Len(s) : s[i] = c
  THEN (CHOOSE i \in 1..Len(s) : s[i] = c /\ \A j \in 1..(i - 1) : s[j] # c) - 1
  ELSE 0 - 1

LastIndexOf(s, c) ==
  IF \E i \in 1..Len(s) : s[i] = c
  THEN (CHOOSE i \in 1..Len(s) : s[i] = c /\ \A j \in (i + 1)..Len(s) : s[j] # c) - 1
  ELSE 0 - 1

MinOf(S) == CHOOSE x \in S : \A y \in S : x <= y

MaxOf(S) == CHOOSE x \in S : \A y \in S : x >= y

\* String.prototype.trim: from the first to the last character that is no blank.
Trim(s) ==
  LET solid == {i \in 1..Len(s) : ~IsSpace(s[i])}
  IN  IF solid = {} THEN <<>> ELSE SubSeq(s, MinOf(solid), MaxOf(solid))

LowerSeq == <<"a", "b", "c", "d", "e", "f", "g", "h", "i", "j", "k", "l", "m",
             "n", "o", "p", "q", "r", "s", "t", "u", "v", "w", "x", "y", "z">>

UpperSeq == <<"A", "B", "C", "D", "E", "F", "G", "H", "I", "J", "K", "L", "M",
             "N", "O", "P", "Q", "R", "S", "T", "U", "V", "W", "X", "Y", "Z">>

ToLowerChar(c) ==
  IF c \in UpperLetters THEN LowerSeq[CHOOSE i \in 1..26 : UpperSeq[i] = c] ELSE c

ToLowerCase(s) == [i \in 1..Len(s) |-> ToLowerChar(s[i])]

RECURSIVE Flatten(_)
Flatten(ss) == IF ss = <<>> THEN <<>> ELSE Head(ss) \o Flatten(Tail(ss))

\* Number.prototype.toString(10) of a non-negative integer, "NaN" for NaN.
RECURSIVE DecDigits(_)
DecDigits(n) ==
  IF n < 10 THEN <<DigitChars[n + 1]>> ELSE DecDigits(n \div 10) \o <<DigitChars[(n % 10) + 1]>>

NumberToString(n) == IF n = NaN THEN <<"N", "a", "N">> ELSE DecDigits(n)

\* Number.prototype.toString(16) of a non-negative integer: lowercase digits.
RECURSIVE ToString16(_)
ToString16(n) ==
  IF n < 16 THEN <<LowerHexChars[n + 1]>>
  ELSE ToString16(n \div 16) \o <<LowerHexChars[(n % 16) + 1]>>

\* parseInt(s) of a run of decimal digits.
RECURSIVE ParseDec(_)
ParseDec(s) ==
  IF s = <<>> THEN 0 ELSE 10 * ParseDec(SubSeq(s, 1, Len(s) - 1)) + DigitVal(s[Len(s)])

\* The longest prefix of s made of hexadecimal digits.
HexPrefix(s) ==
  LET other == {i \in 1..Len(s) : ~IsHexDigit(s[i])}
  IN  IF other = {} THEN s ELSE SubSeq(s, 1, MinOf(other) - 1)

RECURSIVE ParseHexDigits(_)
ParseHexDigits(s) ==
  IF s = <<>> THEN 0 ELSE 16 * ParseHexDigits(SubSeq(s, 1, Len(s) - 1)) + HexVal(s[Len(s)])

\* parseInt(s, 16): the value of the longest hexadecimal prefix, NaN when it is
\* empty (strings here hold no sign, blank or 0x prefix in that position).
ParseInt16(s) == IF HexPrefix(s) = <<>> THEN NaN ELSE ParseHexDigits(HexPrefix(s))

\* s.match(/\d+/g): the maximal runs of decimal digits, left to right
\* (the empty sequence stands for null).
\* The n-th smallest element of a finite set of integers.
Nth(S, n) == CHOOSE x \in S : Cardinality({y \in S : y < x}) = n - 1

MatchDigitRuns(s) ==
  LET starts == {i \in 1..Len(s) : IsDigit(s[i]) /\ (i = 1 \/ ~IsDigit(s[i - 1]))}
      ends == {i \in 1..Len(s) : IsDigit(s[i]) /\ (i = Len(s) \/ ~IsDigit(s[i + 1]))}
  IN  [n \in 1..Cardinality(starts) |-> SubSeq(s, Nth(starts, n), Nth(ends, n))]

(***************************************************************************)
(* Colour utilities (colorUtils).                                          *)
(***************************************************************************)
Null == [isNull |-> TRUE]

\* hexToRgb: strip one leading '#', read three components, format "RGB(r, g, b)".
hexToRgb(hexArg) ==
  LET hex == IF StartsWith(hexArg, <<"#">>) THEN Tail(hexArg) ELSE hexArg
      r == IF Len(hex) = 3 THEN ParseInt16(CharAt(hex, 0) \o CharAt(hex, 0))
           ELSE ParseInt16(Substring(hex, 0, 2))
      g == IF Len(hex) = 3 THEN ParseInt16(CharAt(hex, 1) \o CharAt(hex, 1))
           ELSE ParseInt16(Substring(hex, 2, 4))
      b == IF Len(hex) = 3 THEN ParseInt16(CharAt(hex, 2) \o CharAt(hex, 2))
           ELSE ParseInt16(Substring(hex, 4, 6))
  IN  <<"R", "G", "B", "(">> \o NumberToString(r) \o <<",", " ">> \o NumberToString(g)
        \o <<",", " ">> \o NumberToString(b) \o <<")">>

\* parseRgb: the first three digit runs of the string, null when there are fewer.
parseRgb(rgb) ==
  LET rgbValues == MatchDigitRuns(rgb)
  IN  IF Len(rgbValues) < 3 THEN Null
      ELSE [isNull |-> FALSE,
            r |-> ParseDec(rgbValues[1]),
            g |-> ParseDec(rgbValues[2]),
            b |-> ParseDec(rgbValues[3])]

componentToHex(c) ==
  LET hex == ToString16(c) IN IF Len(hex) = 1 THEN <<"0">> \o hex ELSE hex

Black == <<"#", "0", "0", "0", "0", "0", "0">>

rgbToHex(rgb) ==
  IF rgb.isNull THEN Black
  ELSE <<"#">> \o componentToHex(rgb.r) \o componentToHex(rgb.g) \o componentToHex(rgb.b)

\* The palette handed to nearest-color: name, red, green, blue, in dictionary order
\* (a sample of the colour-name list).
Palette ==
  << [name |-> "Black", r |-> 0,   g |-> 0,   b |-> 0],
     [name |-> "White", r |-> 255, g |-> 255, b |-> 255],
     [name |-> "Red",   r |-> 255, g |-> 0,   b |-> 0],
     [name |-> "Blue",  r |-> 0,   g |-> 0,   b |-> 255],
     [name |-> "Grey",  r |-> 128, g |-> 128, b |-> 128] >>

\* nearest-color's parseColor accepts '#'-optional hex of 3 or 6 digits.
IsNearestHex(s) ==
  LET h == IF StartsWith(s, <<"#">>) THEN Tail(s) ELSE s
  IN  Len(h) \in {3, 6} /\ \A i \in 1..Len(h) : IsHexDigit(h[i])

NearestRgb(s) ==
  LET h == IF StartsWith(s, <<"#">>) THEN Tail(s) ELSE s
  IN  IF Len(h) = 3
      THEN [r |-> 17 * HexVal(h[1]), g |-> 17 * HexVal(h[2]), b |-> 17 * HexVal(h[3])]
      ELSE [r |-> ParseHexDigits(SubSeq(h, 1, 2)), g |-> ParseHexDigits(SubSeq(h, 3, 4)),
            b |-> ParseHexDigits(SubSeq(h, 5, 6))]

Distance(c, p) == (c.r - p.r) * (c.r - p.r) + (c.g - p.g) * (c.g - p.g) + (c.b - p.b) * (c.b - p.b)

\* nearest(hex): the first palette entry at minimal distance.
nearest(hex) ==
  LET c == NearestRgb(hex)
      i == CHOOSE k \in 1..Len(Palette) :
             /\ \A j \in 1..Len(Palette) : Distance(c, Palette[k]) <= Distance(c, Palette[j])
             /\ \A j \in 1..(k - 1) : Distance(c, Palette[j]) > Distance(c, Palette[k])
  IN  Palette[i].name

\* findClosestColorName: "Unknown" for a form that is neither rgb nor '#', for an
\* rgb form without three numbers, and when nearest() throws (caught).
findClosestColorName(colorValue) ==
  LET hexColor == IF StartsWith(colorValue, <<"r", "g", "b">>)
                  THEN rgbToHex(parseRgb(colorValue))
                  ELSE colorValue
  IN  IF StartsWith(colorValue, <<"r", "g", "b">>) /\ parseRgb(colorValue).isNull THEN "Unknown"
      ELSE IF ~StartsWith(colorValue, <<"r", "g", "b">>) /\ ~StartsWith(colorValue, <<"#">>)
      THEN "Unknown"
      ELSE IF ~IsNearestHex(hexColor) THEN "Unknown"
      ELSE nearest(hexColor)

(***************************************************************************)
(* Array.prototype.sort as Node's V8 runs it on arrays shorter than 64     *)
(* elements: the first run is counted (and reversed when strictly          *)
(* descending), the rest is inserted by binary insertion.  The comparator  *)
(* is named by kind; a NaN result counts as 0.                             *)
(***************************************************************************)
\* The numerator of the brightness (r*299 + g*587 + b*114) / 1000: the sign of a
\* difference of two brightnesses is the sign of the difference of the numerators.
Brightness(c) == c.r * 299 + c.g * 587 + c.b * 114

\* The comparator of sortColorsByBrightness: 0 when either rgb cannot be parsed.
CompareBrightness(a, b) ==
  LET rgbA == parseRgb(a.rgb)
      rgbB == parseRgb(b.rgb)
  IN  IF rgbA.isNull \/ rgbB.isNull THEN 0 ELSE Brightness(rgbA) - Brightness(rgbB)

\* The length of the run of characters of a class that starts at position i.
HexRunLen(s, i) ==
  LET other == {j \in i..Len(s) : ~IsHexDigit(s[j])}
  IN  IF i > Len(s) THEN 0 ELSE (IF other = {} THEN Len(s) + 1 ELSE MinOf(other)) - i

LetterRunLen(s, i) ==
  LET other == {j \in i..Len(s) : ~IsLetter(s[j])}
  IN  IF i > Len(s) THEN 0 ELSE (IF other = {} THEN Len(s) + 1 ELSE MinOf(other)) - i

DigitRunLen(s, i) ==
  LET other == {j \in i..Len(s) : ~IsDigit(s[j])}
  IN  IF i > Len(s) THEN 0 ELSE (IF other = {} THEN Len(s) + 1 ELSE MinOf(other)) - i

\* parseFloat: the leading decimal number of the string, in thousandths; NaN when
\* the string does not start with a number (values here carry no sign or exponent).
parseFloat(str) ==
  LET s == Trim(str)
      d == DigitRunLen(s, 1)
      f == IF d + 1 <= Len(s) /\ s[d + 1] = "." THEN DigitRunLen(s, d + 2) ELSE 0
      frac == SubSeq(s, d + 2, d + 1 + Min(f, 3))
      scale == IF Len(frac) = 0 THEN 1000 ELSE IF Len(frac) = 1 THEN 100
               ELSE IF Len(frac) = 2 THEN 10 ELSE 1
  IN  IF d = 0 /\ f = 0 THEN [nan |-> TRUE]
      ELSE [nan |-> FALSE, v |-> 1000 * ParseDec(SubSeq(s, 1, d)) + scale * ParseDec(frac)]

\* The comparator of the typography sort: parseFloat(b) - parseFloat(a), a NaN
\* difference counting as 0.
CompareFontSize(a, b) ==
  LET fa == parseFloat(a.fontSize)
      fb == parseFloat(b.fontSize)
  IN  IF fa.nan \/ fb.nan THEN 0 ELSE fb.v - fa.v

Compare(kind, a, b) ==
  IF kind = "brightness" THEN CompareBrightness(a, b) ELSE CompareFontSize(a, b)

\* Every comparator result the sort can ask for: order[i][j] is the comparator on
\* the i-th and the j-th element of the array as it was handed to sort.
CompareAll(kind, a) ==
  [i \in 1..Len(a) |-> [j \in 1..Len(a) |-> Compare(kind, a[i], a[j])]]

\* In the operators below p is the array as the sequence of the original indexes
\* of its elements.
RECURSIVE RunEnd(_, _, _, _)
RunEnd(order, p, idx, isDescending) ==
  IF idx > Len(p) THEN Len(p)
  ELSE IF \/ isDescending /\ order[p[idx]][p[idx - 1]] >= 0
          \/ ~isDescending /\ order[p[idx]][p[idx - 1]] < 0
       THEN idx - 1
       ELSE RunEnd(order, p, idx + 1, isDescending)

Reverse(a) == [i \in 1..Len(a) |-> a[Len(a) + 1 - i]]

RECURSIVE BinarySearch(_, _, _, _, _)
BinarySearch(order, p, pivot, left, right) ==
  IF left >= right THEN left
  ELSE IF order[pivot][p[left + ((right - left) \div 2)]] < 0
       THEN BinarySearch(order, p, pivot, left, left + ((right - left) \div 2))
       ELSE BinarySearch(order, p, pivot, left + ((right - left) \div 2) + 1, right)

\* The array after its element at start is inserted at position left.
InsertAt(p, start, left) ==
  SubSeq(p, 1, left - 1) \o <<p[start]>> \o SubSeq(p, left, start - 1)
    \o SubSeq(p, start + 1, Len(p))

RECURSIVE BinaryInsertionSort(_, _, _)
BinaryInsertionSort(order, p, start) ==
  IF start > Len(p) THEN p
  ELSE BinaryInsertionSort(order,
                           InsertAt(p, start, BinarySearch(order, p, p[start], 1, start)),
                           start + 1)

\* The first run, reversed in place when it descends.
MakeRun(p, runLength, isDescending) ==
  IF isDescending
  THEN Reverse(SubSeq(p, 1, runLength)) \o SubSeq(p, runLength + 1, Len(p))
  ELSE p

SortFromRun(order, p, runLength, isDescending) ==
  BinaryInsertionSort(order, MakeRun(p, runLength, isDescending), runLength + 1)

SortIndexes(order, p) ==
  SortFromRun(order, p, RunEnd(order, p, 3, order[2][1] < 0), order[2][1] < 0)

Permuted(a, p) == [i \in 1..Len(p) |-> a[p[i]]]

ArraySort(kind, a) ==
  IF Len(a) < 2 THEN a
  ELSE Permuted(a, SortIndexes(CompareAll(kind, a), [i \in 1..Len(a) |-> i]))

sortColorsByBrightness(cs) == ArraySort("brightness", cs)

(***************************************************************************)
(* Colour collector (colorService).                                        *)
(***************************************************************************)
Str_rgb == <<"r", "g", "b">>

Str_transparent == <<"t", "r", "a", "n", "s", "p", "a", "r", "e", "n", "t">>

Str_none == <<"n", "o", "n", "e">>

Str_inherit == <<"i", "n", "h", "e", "r", "i", "t">>

Str_initial == <<"i", "n", "i", "t", "i", "a", "l">>

Str_currentcolor == <<"c", "u", "r", "r", "e", "n", "t", "c", "o", "l", "o", "r">>

Str_rgba0 == <<"r", "g", "b", "a", "(", "0", ",", " ", "0", ",", " ", "0", ",", " ", "0", ")">>

NonColors == {<<>>, Str_transparent, Str_none, Str_inherit, Str_initial, Str_currentcolor, Str_rgba0}

\* Insertion-ordered Set: a value is kept at its first occurrence.
RECURSIVE SetAddAll(_, _)
SetAddAll(acc, xs) ==
  IF xs = <<>> THEN acc
  ELSE SetAddAll(IF \E i \in 1..Len(acc) : acc[i] = Head(xs) THEN acc ELSE Append(acc, Head(xs)),
                 Tail(xs))

\* The in-page walk: every computed value, trimmed, that is not a non-colour.
collectRawColors(values) ==
  LET trimmed == [i \in 1..Len(values) |-> Trim(values[i])]
  IN  SetAddAll(<<>>, SelectSeq(trimmed, LAMBDA v : v \notin NonColors))

processColor(colorValue) ==
  LET rgbValues == MatchDigitRuns(colorValue)
      hex == IF StartsWith(colorValue, <<"#">>) THEN colorValue
             ELSE IF StartsWith(colorValue, Str_rgb)
             THEN (IF Len(rgbValues) >= 3
                   THEN rgbToHex([isNull |-> FALSE, r |-> ParseDec(rgbValues[1]),
                                  g |-> ParseDec(rgbValues[2]), b |-> ParseDec(rgbValues[3])])
                   ELSE Black)
             ELSE Black
      rgb == IF StartsWith(colorValue, <<"#">>) THEN hexToRgb(colorValue)
             ELSE IF StartsWith(colorValue, Str_rgb) THEN colorValue
             ELSE <<"R", "G", "B", "(", "0", ",", " ", "0", ",", " ", "0", ")">>
  IN  [name |-> findClosestColorName(colorValue), hex |-> hex, rgb |-> rgb]

\* A dedupe that forgets the seen-set: every record is pushed.
uniqueByHexNoCheck(acc, cs) == acc \o cs

\* Keep the first record of every hex string.
RECURSIVE uniqueByHex(_, _)
uniqueByHex(acc, cs) ==
  IF cs = <<>> THEN acc
  ELSE uniqueByHex(IF \E i \in 1..Len(acc) : acc[i].hex = Head(cs).hex THEN acc
                   ELSE Append(acc, Head(cs)),
                   Tail(cs))

processedColors(values) ==
  LET rawColors == collectRawColors(values)
  IN  [i \in 1..Len(rawColors) |-> processColor(rawColors[i])]

extractColors(values) == sortColorsByBrightness(uniqueByHex(<<>>, processedColors(values)))

(***************************************************************************)
(* Gradient parser (gradientService, in-page helpers).                     *)
(***************************************************************************)
Str_gradient == <<"g", "r", "a", "d", "i", "e", "n", "t">>

Str_hsl == <<"h", "s", "l">>

GradientKeywords ==
  {<<"t", "o">>, <<"a", "t">>, <<"f", "r", "o", "m">>, <<"d", "e", "g">>, <<"r", "a", "d">>, <<"g", "r", "a", "d">>, <<"t", "u", "r", "n">>,
   <<"r", "e", "p", "e", "a", "t">>, <<"r", "e", "p", "e", "a", "t", "i", "n", "g">>, <<"l", "i", "n", "e", "a", "r">>, <<"r", "a", "d", "i", "a", "l">>, <<"c", "o", "n", "i", "c">>}

IsWord(s) == s # <<>> /\ \A i \in 1..Len(s) : IsLetter(s[i])

\* /^#([0-9A-F]{3}){1,2}$/i
IsHex3or6(s) ==
  /\ StartsWith(s, <<"#">>)
  /\ Len(s) \in {4, 7}
  /\ \A i \in 2..Len(s) : IsHexDigit(s[i])

isValidColor(color) ==
  IF color = <<>> THEN FALSE
  ELSE IF IsHex3or6(color) THEN TRUE
  ELSE IF StartsWith(color, Str_rgb) /\ Includes(color, <<"(">>) /\ Includes(color, <<")">>) THEN TRUE
  ELSE IF StartsWith(color, Str_hsl) /\ Includes(color, <<"(">>) /\ Includes(color, <<")">>) THEN TRUE
  ELSE IF IsWord(color) THEN ToLowerCase(color) \notin GradientKeywords
  ELSE FALSE

\* The position of the first ')' at or after i, 0 when there is none.
NextClose(s, i) ==
  LET closes == {j \in i..Len(s) : s[j] = ")"}
  IN  IF closes = {} THEN 0 ELSE MinOf(closes)

\* name a? \( [^)]+ \)  at position i, case-insensitive: the end of the match, 0 when none.
FunctionEnd(s, i, name) ==
  LET j == i + Len(name)
      open == IF j + 1 <= Len(s) /\ ToLowerChar(s[j]) = "a" /\ s[j + 1] = "(" THEN j + 1
              ELSE IF j <= Len(s) /\ s[j] = "(" THEN j
              ELSE 0
      close == IF open = 0 THEN 0 ELSE NextClose(s, open + 1)
  IN  IF i + Len(name) - 1 <= Len(s) /\ ToLowerCase(SubSeq(s, i, i + Len(name) - 1)) = name
         /\ open # 0 /\ close >= open + 2
      THEN close ELSE 0

\* The colour alternative of the stop pattern tried at position i:
\* #[0-9a-f]{3,8} | rgba?\([^)]+\) | hsla?\([^)]+\) | [a-z]+ ; the empty string when none matches.
StopTokenAt(s, i) ==
  IF s[i] = "#" /\ HexRunLen(s, i + 1) >= 3 THEN SubSeq(s, i, i + Min(8, HexRunLen(s, i + 1)))
  ELSE IF FunctionEnd(s, i, Str_rgb) # 0 THEN SubSeq(s, i, FunctionEnd(s, i, Str_rgb))
  ELSE IF FunctionEnd(s, i, Str_hsl) # 0 THEN SubSeq(s, i, FunctionEnd(s, i, Str_hsl))
  ELSE SubSeq(s, i, i + LetterRunLen(s, i) - 1)

\* part.match(...)[1]: the token of the leftmost match (empty stands for null).
StopToken(part) ==
  LET matches == {i \in 1..Len(part) : StopTokenAt(part, i) # <<>>}
  IN  IF matches = {} THEN <<>> ELSE StopTokenAt(part, MinOf(matches))

\* /^\d+(\.\d+)?(deg|grad|rad|turn)/
StartsWithAngle(s) ==
  LET d == DigitRunLen(s, 1)
      f == IF d + 1 <= Len(s) /\ s[d + 1] = "." /\ DigitRunLen(s, d + 2) >= 1
           THEN 1 + DigitRunLen(s, d + 2) ELSE 0
      units == {<<"d", "e", "g">>, <<"g", "r", "a", "d">>, <<"r", "a", "d">>, <<"t", "u", "r", "n">>}
  IN  /\ d >= 1
      /\ \/ \E u \in units : StartsWith(SubSeq(s, d + f + 1, Len(s)), u)
         \/ \E u \in units : StartsWith(SubSeq(s, d + 1, Len(s)), u)

\* The parenthesis depth after the first i characters: '(' counts up, ')' down.
DepthAfter(s, i) ==
  Cardinality({j \in 1..i : s[j] = "("}) - Cardinality({j \in 1..i : s[j] = ")"})

\* A split that ignores the parenthesis depth.
SplitStopsAtEveryComma(s) ==
  LET seps == {i \in 1..Len(s) : s[i] = ","}
      k == Cardinality(seps)
      from(n) == IF n = 1 THEN 1 ELSE Nth(seps, n - 1) + 1
      pushed == [n \in 1..k |-> Trim(SubSeq(s, from(n), Nth(seps, n) - 1))]
      rest == Trim(SubSeq(s, from(k + 1), Len(s)))
  IN  IF rest # <<>> THEN Append(pushed, rest) ELSE pushed

\* The comma split of extractColorStops: the loop pushes the trimmed part at every
\* comma read at depth 0, and the trimmed rest after the loop when it is not empty.
SplitStops(s) ==
  LET seps == {i \in 1..Len(s) : s[i] = "," /\ DepthAfter(s, i) = 0}
      k == Cardinality(seps)
      from(n) == IF n = 1 THEN 1 ELSE Nth(seps, n - 1) + 1
      pushed == [n \in 1..k |-> Trim(SubSeq(s, from(n), Nth(seps, n) - 1))]
      rest == Trim(SubSeq(s, from(k + 1), Len(s)))
  IN  IF rest # <<>> THEN Append(pushed, rest) ELSE pushed

\* The orientation skip: after "to " or an angle, drop up to the first comma.
SkipOrientation(gradientContent) ==
  IF (StartsWith(gradientContent, <<"t", "o", " ">>) \/ StartsWithAngle(gradientContent))
     /\ IndexOf(gradientContent, ",") # 0 - 1
  THEN Trim(SubstringFrom(gradientContent, IndexOf(gradientContent, ",") + 1))
  ELSE gradientContent

extractColorStops(gradientValue) ==
  LET openParenIndex == IndexOf(gradientValue, "(")
      closeParenIndex == LastIndexOf(gradientValue, ")")
      gradientContent == Trim(Substring(gradientValue, openParenIndex + 1, closeParenIndex))
      parts == SplitStops(SkipOrientation(gradientContent))
      tokens == [i \in 1..Len(parts) |-> StopToken(parts[i])]
  IN  IF gradientValue = <<>> \/ openParenIndex = 0 - 1 \/ closeParenIndex = 0 - 1 THEN <<>>
      ELSE SelectSeq(tokens, isValidColor)

gradientType(gradientValue) ==
  IF Includes(gradientValue, <<"l", "i", "n", "e", "a", "r", "-", "g", "r", "a", "d", "i", "e", "n", "t">>) THEN "linear"
  ELSE IF Includes(gradientValue, <<"r", "a", "d", "i", "a", "l", "-", "g", "r", "a", "d", "i", "e", "n", "t">>) THEN "radial"
  ELSE IF Includes(gradientValue, <<"c", "o", "n", "i", "c", "-", "g", "r", "a", "d", "i", "e", "n", "t">>) THEN "conic"
  ELSE IF Includes(gradientValue, <<"r", "e", "p", "e", "a", "t", "i", "n", "g", "-", "l", "i", "n", "e", "a", "r", "-", "g", "r", "a", "d", "i", "e", "n", "t">>) THEN "repeating-linear"
  ELSE IF Includes(gradientValue, <<"r", "e", "p", "e", "a", "t", "i", "n", "g", "-", "r", "a", "d", "i", "a", "l", "-", "g", "r", "a", "d", "i", "e", "n", "t">>) THEN "repeating-radial"
  ELSE IF Includes(gradientValue, <<"r", "e", "p", "e", "a", "t", "i", "n", "g", "-", "c", "o", "n", "i", "c", "-", "g", "r", "a", "d", "i", "e", "n", "t">>) THEN "repeating-conic"
  ELSE "other"

\* An off-by-one in the end stop: the second stop instead of the last.
extractGradientInfoSecondStop(gradientValue) ==
  LET colorStops == extractColorStops(gradientValue)
  IN  IF gradientValue = <<>> \/ ~Includes(gradientValue, Str_gradient) THEN Null
      ELSE IF Len(colorStops) < 2 THEN Null
      ELSE [isNull |-> FALSE, start |-> colorStops[1], end |-> colorStops[2],
            type |-> gradientType(gradientValue), full |-> Trim(gradientValue)]

\* A threshold of one stop instead of two.
extractGradientInfoOneStop(gradientValue) ==
  LET colorStops == extractColorStops(gradientValue)
  IN  IF gradientValue = <<>> \/ ~Includes(gradientValue, Str_gradient) THEN Null
      ELSE IF Len(colorStops) < 1 THEN Null
      ELSE [isNull |-> FALSE, start |-> colorStops[1], end |-> colorStops[Len(colorStops)],
            type |-> gradientType(gradientValue), full |-> Trim(gradientValue)]

extractGradientInfo(gradientValue) ==
  LET colorStops == extractColorStops(gradientValue)
  IN  IF gradientValue = <<>> \/ ~Includes(gradientValue, Str_gradient) THEN Null
      ELSE IF Len(colorStops) < 2 THEN Null
      ELSE [isNull |-> FALSE, start |-> colorStops[1], end |-> colorStops[Len(colorStops)],
            type |-> gradientType(gradientValue), full |-> Trim(gradientValue)]

\* The split of one property value into its gradient functions: a piece is pushed
\* when the depth returns to 0 and it holds "gradient"; a comma at depth 0 restarts.
\* The loop is followed from one ')' that closes to depth 0 to the next (closers,
\* in order): currentGradient then holds the text after the last restart, a restart
\* being the last push (lastPush) or a later comma read at depth 0.
RECURSIVE SplitGradientsFrom(_, _, _)
SplitGradientsFrom(value, closers, lastPush) ==
  IF closers = {} THEN <<>>
  ELSE LET i == MinOf(closers)
           commas == {j \in (lastPush + 1)..(i - 1) : value[j] = "," /\ DepthAfter(value, j) = 0}
           restart == IF commas = {} THEN lastPush ELSE MaxOf(commas)
           currentGradient == SubSeq(value, restart + 1, i)
       IN  IF Includes(currentGradient, Str_gradient)
           THEN <<currentGradient>> \o SplitGradientsFrom(value, closers \ {i}, i)
           ELSE SplitGradientsFrom(value, closers \ {i}, lastPush)

SplitGradients(value) ==
  SplitGradientsFrom(value,
                     {i \in 1..Len(value) : value[i] = ")" /\ DepthAfter(value, i) = 0}, 0)

\* The gradients one property value adds to uniqueGradients, in order.
gradientsOfValue(rawValue) ==
  LET value == Trim(rawValue)
      pieces == IF value # <<>> /\ Includes(value, Str_gradient)
                THEN SplitGradients(value) ELSE <<>>
      infos == [i \in 1..Len(pieces) |-> extractGradientInfo(pieces[i])]
  IN  SelectSeq(infos, LAMBDA r : ~r.isNull)

\* The first page.evaluate: the walk over all property values, into an
\* insertion-ordered Set of JSON strings (equal records, equal strings).
collectRawGradients(values) ==
  SetAddAll(<<>>, Flatten([i \in 1..Len(values) |-> gradientsOfValue(values[i])]))

(***************************************************************************)
(* Gradient post-processing: conversion to hex in the page, naming, dedupe.*)
(***************************************************************************)
\* The colour names the browser model knows, with their components.
NamedCssColors ==
  {<<<<"r", "e", "d">>, 255, 0, 0>>, <<<<"b", "l", "u", "e">>, 0, 0, 255>>,
   <<<<"w", "h", "i", "t", "e">>, 255, 255, 255>>, <<<<"b", "l", "a", "c", "k">>, 0, 0, 0>>}

\* hsl() values the browser model knows (hsl to rgb is the browser's arithmetic).
HslCssColors ==
  {<<<<"h", "s", "l", "(", "2", "4", "0", ",", " ", "1", "0", "0", "%", ",", " ", "5", "0", "%", ")">>, 0, 0, 255>>, <<<<"h", "s", "l", "(", "0", ",", " ", "1", "0", "0", "%", ",", " ", "5", "0", "%", ")">>, 255, 0, 0>>}

IsCssRgbFunction(color) ==
  /\ StartsWith(color, <<"r", "g", "b", "(">>) \/ StartsWith(color, <<"r", "g", "b", "a", "(">>)
  /\ EndsWith(color, <<")">>)
  /\ Len(MatchDigitRuns(color)) >= 3
  /\ \A i \in (IndexOf(color, "(") + 2)..(Len(color) - 1) :
        IsDigit(color[i]) \/ color[i] \in {",", " ", "."}

FormatRgb(r, g, b) ==
  <<"r", "g", "b", "(">> \o NumberToString(r) \o <<",", " ">> \o NumberToString(g)
    \o <<",", " ">> \o NumberToString(b) \o <<")">>

\* The colour inherited from the body when the assigned value is no CSS colour.
InheritedColor == FormatRgb(0, 0, 0)

\* window.getComputedStyle(temp).color after temp.style.color = color.
BrowserComputedColor(color) ==
  IF IsHex3or6(color)
  THEN FormatRgb(NearestRgb(color).r, NearestRgb(color).g, NearestRgb(color).b)
  ELSE IF IsCssRgbFunction(color)
  THEN FormatRgb(Min(255, ParseDec(MatchDigitRuns(color)[1])),
                 Min(255, ParseDec(MatchDigitRuns(color)[2])),
                 Min(255, ParseDec(MatchDigitRuns(color)[3])))
  ELSE IF \E n \in NamedCssColors : n[1] = ToLowerCase(color)
  THEN LET n == CHOOSE n \in NamedCssColors : n[1] = ToLowerCase(color)
       IN  FormatRgb(n[2], n[3], n[4])
  ELSE IF \E n \in HslCssColors : n[1] = color
  THEN LET n == CHOOSE n \in HslCssColors : n[1] = color IN FormatRgb(n[2], n[3], n[4])
  ELSE InheritedColor

\* String.prototype.padStart(2, '0')
PadStart2(h) == IF Len(h) < 2 THEN <<"0">> \o h ELSE h

\* colorToHex: '#000000' for an empty colour; the colour unchanged when the
\* temporary element cannot be attached (no body: the exception is caught) or
\* the computed colour does not match rgb(r, g, b); else the padded hex.
colorToHex(color, hasBody) ==
  IF color = <<>> THEN Black
  ELSE IF ~hasBody THEN color
  ELSE LET computedColor == BrowserComputedColor(color)
           m == MatchDigitRuns(computedColor)
       IN  IF StartsWith(computedColor, Str_rgb) /\ Len(m) >= 3
           THEN <<"#">> \o PadStart2(ToString16(ParseDec(m[1])))
                  \o PadStart2(ToString16(ParseDec(m[2])))
                  \o PadStart2(ToString16(ParseDec(m[3])))
           ELSE color

\* The second page.evaluate.
processedGradients(raw, hasBody) ==
  [i \in 1..Len(raw) |->
     [start |-> colorToHex(raw[i].start, hasBody), end |-> colorToHex(raw[i].end, hasBody),
      type |-> raw[i].type, full |-> raw[i].full]]

namedGradients(raw, hasBody) ==
  LET processed == processedGradients(raw, hasBody)
  IN  [i \in 1..Len(processed) |->
         [name |-> <<findClosestColorName(processed[i].start), " to ",
                     findClosestColorName(processed[i].end)>>,
          start |-> processed[i].start, end |-> processed[i].end]]

gradientKey(gradient) == gradient.start \o <<"-">> \o gradient.end

\* A dedupe that forgets the seen-set: every record is pushed.
uniqueByKeyNoCheck(acc, gs) == acc \o gs

\* Keep the first record of every `${start}-${end}` key.
RECURSIVE uniqueByKey(_, _)
uniqueByKey(acc, gs) ==
  IF gs = <<>> THEN acc
  ELSE uniqueByKey(IF \E i \in 1..Len(acc) : gradientKey(acc[i]) = gradientKey(Head(gs))
                   THEN acc ELSE Append(acc, Head(gs)),
                   Tail(gs))

(***************************************************************************)
(* Typography grouper (typographyService: its two definitions, and the     *)
(* /scrape handler of server.js, which runs the second one inline).        *)
(***************************************************************************)
relevantTags ==
  {<<"p">>, <<"s", "p", "a", "n">>, <<"h", "1">>, <<"h", "2">>, <<"h", "3">>, <<"h", "4">>,
   <<"h", "5">>, <<"h", "6">>, <<"a">>, <<"b", "u", "t", "t", "o", "n">>, <<"l", "a", "b", "e", "l">>, <<"l", "i">>,
   <<"t", "h">>, <<"t", "d">>, <<"c", "a", "p", "t", "i", "o", "n">>, <<"b", "l", "o", "c", "k", "q", "u", "o", "t", "e">>, <<"f", "i", "g", "c", "a", "p", "t", "i", "o", "n">>, <<"c", "i", "t", "e">>,
   <<"q">>, <<"s", "t", "r", "o", "n", "g">>, <<"e", "m">>, <<"s", "m", "a", "l", "l">>, <<"p", "r", "e">>, <<"c", "o", "d", "e">>,
   <<"d", "i", "v">>}

\* The font-family clean-up: the first comma-separated entry, trimmed, without a
\* pair of surrounding quotes.
firstFontFamily(raw) ==
  LET val == Trim(raw)
      comma == IndexOf(val, ",")
      first == Trim(IF comma = 0 - 1 THEN val ELSE Substring(val, 0, comma))
  IN  IF \/ StartsWith(first, <<"\"">>) /\ EndsWith(first, <<"\"">>)
         \/ StartsWith(first, <<"'">>) /\ EndsWith(first, <<"'">>)
      THEN Substring(first, 1, Len(first) - 1)
      ELSE first

\* tag: el.tagName.toLowerCase().
tagOf(el) == ToLowerCase(el.tagName)

\* styleObj: the eight computed properties, trimmed.
styleObj(el) ==
  [fontFamily |-> firstFontFamily(el.fontFamily), fontSize |-> Trim(el.fontSize),
   fontWeight |-> Trim(el.fontWeight), lineHeight |-> Trim(el.lineHeight),
   letterSpacing |-> Trim(el.letterSpacing), textTransform |-> Trim(el.textTransform),
   fontStyle |-> Trim(el.fontStyle), textDecoration |-> Trim(el.textDecoration)]

Bar == <<"|">>

\* groupingKey with letter-spacing left out of the joined properties.
groupingKeyWithoutSpacing(tag, st) ==
  tag \o Bar \o st.fontFamily \o Bar \o st.fontSize \o Bar \o st.fontWeight
      \o Bar \o st.lineHeight

\* tag + '|' + the five grouping properties joined by '|'.
groupingKey(tag, st) ==
  tag \o Bar \o st.fontFamily \o Bar \o st.fontSize \o Bar \o st.fontWeight
      \o Bar \o st.lineHeight \o Bar \o st.letterSpacing

\* tag + '|' + className + '|' + the eight properties joined by '|'.
classKey(tag, className, st) ==
  tag \o Bar \o className \o Bar \o st.fontFamily \o Bar \o st.fontSize
      \o Bar \o st.fontWeight \o Bar \o st.lineHeight \o Bar \o st.letterSpacing
      \o Bar \o st.textTransform \o Bar \o st.fontStyle \o Bar \o st.textDecoration

elementKey(byClass, tag, className, st) ==
  IF byClass THEN classKey(tag, className, st) ELSE groupingKey(tag, st)

\* { tag, className, ...styleObj, count: 1 }
newGroup(tag, className, st) ==
  [tag |-> tag, className |-> className,
   fontFamily |-> st.fontFamily, fontSize |-> st.fontSize, fontWeight |-> st.fontWeight,
   lineHeight |-> st.lineHeight, letterSpacing |-> st.letterSpacing,
   textTransform |-> st.textTransform, fontStyle |-> st.fontStyle,
   textDecoration |-> st.textDecoration, count |-> 1]

EmptyWalk == [keys |-> <<>>, groups |-> <<>>, tagCounts |-> <<>>, duplicatesRemoved |-> 0]

\* tagCounts[tag] = (tagCounts[tag] || 0) + 1, tagCounts kept as the sequence of
\* its entries in insertion order.
countTag(tagCounts, tag) ==
  IF \E i \in 1..Len(tagCounts) : tagCounts[i].tag = tag
  THEN [i \in 1..Len(tagCounts) |->
          IF tagCounts[i].tag = tag
          THEN [tag |-> tag, count |-> tagCounts[i].count + 1] ELSE tagCounts[i]]
  ELSE Append(tagCounts, [tag |-> tag, count |-> 1])

\* addToGroups without the duplicatesRemoved++ of the known-key branch.
addToGroupsUncounted(w, key, tag, group) ==
  IF \E i \in 1..Len(w.keys) : w.keys[i] = key
  THEN [w EXCEPT !.groups = [i \in 1..Len(w.groups) |->
                               IF w.keys[i] = key
                               THEN [w.groups[i] EXCEPT !.count = @ + 1]
                               ELSE w.groups[i]],
                 !.tagCounts = countTag(@, tag)]
  ELSE [w EXCEPT !.keys = Append(@, key),
                 !.groups = Append(@, group),
                 !.tagCounts = countTag(@, tag)]

\* A known key counts a duplicate, a new key opens a group; the tag is counted.
addToGroups(w, key, tag, group) ==
  IF \E i \in 1..Len(w.keys) : w.keys[i] = key
  THEN [w EXCEPT !.groups = [i \in 1..Len(w.groups) |->
                               IF w.keys[i] = key
                               THEN [w.groups[i] EXCEPT !.count = @ + 1]
                               ELSE w.groups[i]],
                 !.duplicatesRemoved = @ + 1,
                 !.tagCounts = countTag(@, tag)]
  ELSE [w EXCEPT !.keys = Append(@, key),
                 !.groups = Append(@, group),
                 !.tagCounts = countTag(@, tag)]

\* One element of the walk, given its tag, className and styleObj.
visitElement(w, byClass, tag, className, st) ==
  addToGroups(w, elementKey(byClass, tag, className, st), tag, newGroup(tag, className, st))

\* A walk that visits every element, whatever its tag.
RECURSIVE walkAllElements(_, _, _)
walkAllElements(w, byClass, els) ==
  IF els = <<>> THEN w
  ELSE walkAllElements(visitElement(w, byClass, tagOf(Head(els)), Trim(Head(els).className),
                                    styleObj(Head(els))),
                       byClass, Tail(els))

\* The walk of the first definition: elements outside relevantTags are skipped.
RECURSIVE walkRelevantElements(_, _, _)
walkRelevantElements(w, byClass, els) ==
  IF els = <<>> THEN w
  ELSE IF tagOf(Head(els)) \notin relevantTags
       THEN walkRelevantElements(w, byClass, Tail(els))
       ELSE walkRelevantElements(visitElement(w, byClass, tagOf(Head(els)),
                                              Trim(Head(els).className), styleObj(Head(els))),
                                 byClass, Tail(els))

withoutCount(g) == [f \in DOMAIN g \ {"count"} |-> g[f]]

\* The CSS meta counters: link elements, rules of accessible style elements, rules
\* of every accessible sheet (an inaccessible one throws and is skipped).
cssMeta(sheets, w) ==
  LET styleRules[n \in 0..Len(sheets)] ==
        IF n = 0 THEN 0
        ELSE styleRules[n - 1]
               + (IF sheets[n].kind = "style" /\ sheets[n].accessible THEN sheets[n].rules ELSE 0)
      allRules[n \in 0..Len(sheets)] ==
        IF n = 0 THEN 0
        ELSE allRules[n - 1] + (IF sheets[n].accessible THEN sheets[n].rules ELSE 0)
  IN  [externalCSSCount |-> Cardinality({i \in 1..Len(sheets) : sheets[i].kind = "link"}),
       inlineCSSCount |-> styleRules[Len(sheets)],
       typographyRulesCount |-> allRules[Len(sheets)],
       duplicatesRemoved |-> w.duplicatesRemoved,
       tagCounts |-> w.tagCounts,
       totalTagsFound |-> Len(w.tagCounts)]

withoutCounts(groups) == [i \in 1..Len(groups) |-> withoutCount(groups[i])]

\* The returned object: the groups sorted by font size, and the meta counters.
typographyResult(groups, sheets, w) ==
  [typography |-> ArraySort("fontSize", groups), meta |-> cssMeta(sheets, w)]

\* extractTypography, first definition: allowlist, five-property key, count kept.
resultWithCounts(sheets, w) == typographyResult(w.groups, sheets, w)

extractTypography(pg) ==
  resultWithCounts(pg.sheets, walkRelevantElements(EmptyWalk, FALSE, pg.elements))

\* extractTypography, second definition (and the inline code of server.js):
\* every tag, key with className and all eight properties, count removed.
resultWithoutCounts(sheets, w) == typographyResult(withoutCounts(w.groups), sheets, w)

extractTypographyByClass(pg) ==
  resultWithoutCounts(pg.sheets, walkAllElements(EmptyWalk, TRUE, pg.elements))

(***************************************************************************)
(* The computed values a page may hand to the colour walk.                 *)
(***************************************************************************)
Raw_abc == <<"#", "a", "b", "c">>

Raw_aabbcc == <<"#", "a", "a", "b", "b", "c", "c">>

Raw_AABBCC == <<"#", "A", "A", "B", "B", "C", "C">>

Raw_fff == <<"#", "f", "f", "f">>

Raw_000 == <<"#", "0", "0", "0">>

Raw_rgbWhite == <<"r", "g", "b", "(", "2", "5", "5", ",", " ", "2", "5", "5", ",", " ", "2", "5", "5", ")">>

Raw_rgbBlack == <<"r", "g", "b", "(", "0", ",", " ", "0", ",", " ", "0", ")">>

Raw_rgbOver == <<"r", "g", "b", "(", "3", "0", "0", ",", " ", "0", ",", " ", "0", ")">>

Raw_rgbShort == <<"r", "g", "b", "(", "1", ",", " ", "2", ")">>

Raw_red == <<"r", "e", "d">>

Raw_rgbPadded == <<" ", "r", "g", "b", "(", "1", "7", "0", ",", " ", "1", "8", "7", ",", " ", "2", "0", "4", ")", " ">>

Raw_hexFive == <<"#", "1", "2", "3", "4", "5">>

RawColorValues ==
  {Raw_hexFive, Raw_abc, Raw_aabbcc, Raw_AABBCC, Raw_fff, Raw_000, Raw_rgbWhite, Raw_rgbBlack, Raw_rgbOver,
   Raw_rgbShort, Raw_red, Raw_rgbPadded, Str_rgba0, Str_transparent}

SeqsUpTo(S, n) == UNION {[1..k -> S] : k \in 0..n}

(***************************************************************************)
(* The property values a page may hand to the gradient walk, and authored  *)
(* gradients: a function, an optional orientation and colour stops, with   *)
(* the text the page computes for them.                                    *)
(***************************************************************************)
Grad_redBlue == <<"l", "i", "n", "e", "a", "r", "-", "g", "r", "a", "d", "i", "e", "n", "t", "(", "r", "e", "d", ",", " ", "b", "l", "u", "e", ")">>

Grad_radialRgb == <<"r", "a", "d", "i", "a", "l", "-", "g", "r", "a", "d", "i", "e", "n", "t", "(", "r", "g", "b", "(", "2", "5", "5", ",", " ", "0", ",", " ", "0", ")", ",", " ", "r", "g", "b", "(", "0", ",", " ", "0", ",", " ", "2", "5", "5", ")", ")">>

Grad_blueRed == <<" ", "l", "i", "n", "e", "a", "r", "-", "g", "r", "a", "d", "i", "e", "n", "t", "(", "b", "l", "u", "e", ",", " ", "r", "e", "d", ")", " ">>

Grad_two == <<"l", "i", "n", "e", "a", "r", "-", "g", "r", "a", "d", "i", "e", "n", "t", "(", "4", "5", "d", "e", "g", ",", " ", "#", "f", "f", "0", "0", "0", "0", " ", "0", "%", ",", " ", "#", "0", "0", "0", "0", "f", "f", " ", "1", "0", "0", "%", ")", ",", " ", "l", "i", "n", "e", "a", "r", "-", "g", "r", "a", "d", "i", "e", "n", "t", "(", "w", "h", "i", "t", "e", ",", " ", "b", "l", "a", "c", "k", ")">>

Grad_tight == <<"l", "i", "n", "e", "a", "r", "-", "g", "r", "a", "d", "i", "e", "n", "t", "(", "r", "g", "b", "a", "(", "1", ",", "2", ",", "3", ",", "0", ".", "5", ")", ",", " ", "#", "f", "f", "f", ")">>

Grad_none == <<"n", "o", "n", "e">>

Plain_url == <<"u", "r", "l", "(", "a", ".", "p", "n", "g", ")">>

Plain_rgb == <<"r", "g", "b", "(", "2", "5", "5", ",", " ", "0", ",", " ", "0", ")">>

Fn_linear == <<"l", "i", "n", "e", "a", "r", "-", "g", "r", "a", "d", "i", "e", "n", "t">>

Fn_repeatingLinear == <<"r", "e", "p", "e", "a", "t", "i", "n", "g", "-", "l", "i", "n", "e", "a", "r", "-", "g", "r", "a", "d", "i", "e", "n", "t">>

Or_toRight == <<"t", "o", " ", "r", "i", "g", "h", "t">>

Or_45deg == <<"4", "5", "d", "e", "g">>

Or_turn == <<"1", ".", "2", "5", "t", "u", "r", "n">>

Or_negDeg == <<"-", "4", "5", "d", "e", "g">>

Stop_red0 == [color |-> <<"#", "f", "f", "0", "0", "0", "0">>, text |-> <<"#", "f", "f", "0", "0", "0", "0", " ", "0", "%">>, valid |-> TRUE]

Stop_blue100 == [color |-> <<"#", "0", "0", "0", "0", "f", "f">>, text |-> <<"#", "0", "0", "0", "0", "f", "f", " ", "1", "0", "0", "%">>, valid |-> TRUE]

Stop_rgba == [color |-> <<"r", "g", "b", "a", "(", "0", ",", " ", "0", ",", " ", "2", "5", "5", ",", " ", "0", ".", "5", ")">>, text |-> <<"r", "g", "b", "a", "(", "0", ",", " ", "0", ",", " ", "2", "5", "5", ",", " ", "0", ".", "5", ")", " ", "5", "0", "%">>, valid |-> TRUE]

Stop_named == [color |-> <<"r", "e", "d">>, text |-> <<"r", "e", "d">>, valid |-> TRUE]

Stop_hint == [color |-> <<>>, text |-> <<"5", "0", "%">>, valid |-> FALSE]

GradientValues ==
  {Grad_redBlue, Grad_radialRgb, Grad_blueRed, Grad_two, Grad_tight, Grad_none}

\* Property values with unbalanced parentheses: a closing parenthesis missing at
\* the gradient level and inside a colour function, and an extra one at each level.
Grad_missingClose == <<"l", "i", "n", "e", "a", "r", "-", "g", "r", "a", "d", "i", "e", "n", "t", "(", "r", "e", "d", ",", " ", "b", "l", "u", "e">>

Grad_missingInner == <<"l", "i", "n", "e", "a", "r", "-", "g", "r", "a", "d", "i", "e", "n", "t", "(", "r", "g", "b", "a", "(", "1", ",", "2", ",", "3", ",", "0", ".", "5", ",", " ", "#", "f", "f", "f", ")">>

Grad_extraClose == <<"l", "i", "n", "e", "a", "r", "-", "g", "r", "a", "d", "i", "e", "n", "t", "(", "r", "e", "d", ",", " ", "b", "l", "u", "e", ")", ")">>

Grad_extraInner == <<"l", "i", "n", "e", "a", "r", "-", "g", "r", "a", "d", "i", "e", "n", "t", "(", "r", "g", "b", "a", "(", "1", ",", "2", ",", "3", ",", "0", ".", "5", ")", ")", ",", " ", "#", "f", "f", "f", ")">>

MalformedValues == {Grad_missingClose, Grad_missingInner, Grad_extraClose, Grad_extraInner}

PlainValues == {Grad_none, Plain_url, Plain_rgb, <<>>}

GradientFunctions == {Fn_linear, Fn_repeatingLinear}

Orientations == {<<>>, Or_toRight, Or_45deg, Or_turn, Or_negDeg}

Stops == {Stop_red0, Stop_blue100, Stop_rgba, Stop_named, Stop_hint}

MaxStops == 3

RECURSIVE JoinStops(_)
JoinStops(stops) ==
  IF stops = <<>> THEN <<>>
  ELSE IF Len(stops) = 1 THEN stops[1].text
  ELSE stops[1].text \o <<",", " ">> \o JoinStops(Tail(stops))

\* The computed text of an authored gradient.
GradientText(a) ==
  a.fn \o <<"(">>
    \o (IF a.orientation = <<>> THEN <<>>
        ELSE IF a.stops = <<>> THEN a.orientation
        ELSE a.orientation \o <<",", " ">>)
    \o JoinStops(a.stops) \o <<")">>

(***************************************************************************)
(* The elements and style sheets a page may hand to the typography walk.   *)
(***************************************************************************)
El_p ==
  [tagName |-> <<"P">>, className |-> <<>>,
   fontFamily |-> <<"A", "r", "i", "a", "l", ",", " ", "s", "a", "n", "s", "-", "s", "e", "r", "i", "f">>, fontSize |-> <<"1", "6", "p", "x">>, fontWeight |-> <<"4", "0", "0">>,
   lineHeight |-> <<"n", "o", "r", "m", "a", "l">>, letterSpacing |-> <<"n", "o", "r", "m", "a", "l">>, textTransform |-> <<"n", "o", "n", "e">>,
   fontStyle |-> <<"n", "o", "r", "m", "a", "l">>, textDecoration |-> <<"n", "o", "n", "e", " ", "s", "o", "l", "i", "d", " ", "r", "g", "b", "(", "0", ",", " ", "0", ",", " ", "0", ")">>]
El_pLead == [El_p EXCEPT !.className = <<" ", "l", "e", "a", "d", " ">>]
El_pDecorated ==
  [El_p EXCEPT !.textTransform = <<"u", "p", "p", "e", "r", "c", "a", "s", "e">>,
               !.fontStyle = <<"i", "t", "a", "l", "i", "c">>,
               !.textDecoration = <<"u", "n", "d", "e", "r", "l", "i", "n", "e", " ", "s", "o", "l", "i", "d", " ", "r", "g", "b", "(", "0", ",", " ", "0", ",", " ", "0", ")">>]
El_pQuoted == [El_p EXCEPT !.fontFamily = <<"\"", "O", "p", "e", "n", " ", "S", "a", "n", "s", "\"", ",", " ", "s", "a", "n", "s", "-", "s", "e", "r", "i", "f">>]
El_h1 == [El_p EXCEPT !.tagName = <<"H", "1">>, !.fontSize = <<"3", "2", "p", "x">>, !.fontWeight = <<"7", "0", "0">>]
El_pNoSize == [El_p EXCEPT !.fontSize = <<>>]
El_script == [El_p EXCEPT !.tagName = <<"S", "C", "R", "I", "P", "T">>]
\* A family name that holds the separator of the grouping key, and an element
\* that differs from El_p in letter-spacing alone.
El_pBar == [El_p EXCEPT !.fontFamily = <<"\"", "A", "r", "i", "a", "l", "|", "1", "6", "p", "x", "\"", ",", " ", "s", "e", "r", "i", "f">>]
El_pSpaced == [El_p EXCEPT !.letterSpacing = <<"2", "p", "x">>]

Elements ==
  {El_p, El_pLead, El_pDecorated, El_pQuoted,
   El_h1, El_pNoSize, El_script, El_pBar, El_pSpaced}

MaxElements == 3

\* document.styleSheets: link sheets (unreadable across origins) and style sheets.
SheetLists ==
  {<<>>,
   <<[kind |-> "link", accessible |-> FALSE, rules |-> 0],
     [kind |-> "style", accessible |-> TRUE, rules |-> 2],
     [kind |-> "link", accessible |-> TRUE, rules |-> 3]>>}

NoAuthored == [kind |-> "none"]

NoResult == [status |-> "none"]

(***************************************************************************)
(* The document and the /scrape pipeline (titleService, the temporary       *)
(* element of colorToHex, and the reads that may fail).                     *)
(***************************************************************************)
\* A node the document has (its text) or has not.
Node(text) == [isNull |-> FALSE, text |-> text]

NoTitles == [titleTag |-> Null, ogTitle |-> Null, h1Tag |-> Null]

Str_unknownTitle == <<"U", "n", "k", "n", "o", "w", "n", " ", "T", "i", "t", "l", "e">>

\* extractPageTitle: the title tag, then og:title, then the first h1, each when it
\* exists and its text is not empty; the text is trimmed after the test.
extractPageTitle(pg) ==
  IF ~pg.titles.titleTag.isNull /\ pg.titles.titleTag.text # <<>>
  THEN Trim(pg.titles.titleTag.text)
  ELSE IF ~pg.titles.ogTitle.isNull /\ pg.titles.ogTitle.text # <<>>
  THEN Trim(pg.titles.ogTitle.text)
  ELSE IF ~pg.titles.h1Tag.isNull /\ pg.titles.h1Tag.text # <<>>
  THEN Trim(pg.titles.h1Tag.text)
  ELSE Str_unknownTitle

\* The sequence without the last occurrence of x.
RemoveLast(seq, x) ==
  LET at == {i \in 1..Len(seq) : seq[i] = x}
  IN  IF at = {} THEN seq
      ELSE SubSeq(seq, 1, MaxOf(at) - 1) \o SubSeq(seq, MaxOf(at) + 1, Len(seq))

\* document.createElement('div') with style.color = color: what the walks read of
\* it once attached (a div with the inherited text style, and its colour).
TempDiv(color) ==
  [element |-> [El_p EXCEPT !.tagName = <<"D", "I", "V">>], color |-> BrowserComputedColor(color)]

\* document.body.appendChild(node): the node becomes the last element.
appendChild(pg, node) ==
  [pg EXCEPT !.elements = Append(@, node.element), !.colorValues = Append(@, node.color)]

\* A removeChild that leaves the node in the document.
removeChildSkipped(pg, node) == pg

\* document.body.removeChild(node)
removeChild(pg, node) ==
  [pg EXCEPT !.elements = RemoveLast(@, node.element),
             !.colorValues = RemoveLast(@, node.color)]

\* A colorToHex that attaches its temporary element and never removes it.
colorToHexLeaking(pg, color) ==
  IF color = <<>> \/ ~pg.hasBody THEN pg ELSE appendChild(pg, TempDiv(color))

\* The document after colorToHex(color): untouched for an empty colour and when
\* there is no body (appendChild throws before attaching); else the temporary
\* element is attached, read and removed.
colorToHexDocument(pg, color) ==
  IF color = <<>> \/ ~pg.hasBody THEN pg
  ELSE removeChild(appendChild(pg, TempDiv(color)), TempDiv(color))

\* The document after the second page.evaluate of extractGradients: colorToHex
\* of the start and of the end of every raw gradient, in order.
RECURSIVE processedGradientsDocument(_, _)
processedGradientsDocument(pg, raw) ==
  IF raw = <<>> THEN pg
  ELSE processedGradientsDocument(
         colorToHexDocument(colorToHexDocument(pg, Head(raw).start), Head(raw).end), Tail(raw))

\* A property value whose read throws.
Unreadable == <<"unreadable">>

\* The colour walk reads every property outside any try block: one read that
\* throws rejects the page.evaluate.
colorWalkThrows(pg) == \E i \in 1..Len(pg.colorValues) : pg.colorValues[i] = Unreadable

\* The typography walk reads the eight properties of every element it visits
\* outside any try block.
typographyWalkThrows(pg, byClass) ==
  \E i \in 1..Len(pg.elements) :
    /\ byClass \/ tagOf(pg.elements[i]) \in relevantTags
    /\ \E prop \in DOMAIN pg.elements[i] \ {"tagName", "className"} :
         pg.elements[i][prop] = Unreadable

\* The gradient walk reads each property inside a try block: a read that throws
\* is logged and the walk goes on with the next property.
gradientWalkValues(pg) == SelectSeq(pg.gradientValues, LAMBDA v : v # Unreadable)

(***************************************************************************)
(* The documents a /scrape may load: title sources, elements, colour and   *)
(* gradient values, with or without a body.                                *)
(***************************************************************************)
Titles_tag == [titleTag |-> Node(<<" ", "H", "o", "m", "e", " ">>), ogTitle |-> Node(<<"S", "h", "o", "p">>), h1Tag |-> Null]

Titles_og == [titleTag |-> Node(<<>>), ogTitle |-> Node(<<"S", "h", "o", "p">>), h1Tag |-> Node(<<"W", "e", "l", "c", "o", "m", "e">>)]

Titles_h1 == [titleTag |-> Null, ogTitle |-> Null, h1Tag |-> Node(<<"W", "e", "l", "c", "o", "m", "e">>)]

TitleSources == {Titles_tag, Titles_og, Titles_h1, NoTitles}

DocElements == {<<>>, <<El_h1, El_p>>}

DocColors == {<<>>, <<Raw_rgbWhite, Raw_rgbBlack>>}

DocGradients == {<<>>, <<Grad_redBlue, Grad_two>>}

\* The document whose reads are made to fail one at a time.
FullDocument ==
  [colorValues |-> <<Raw_rgbWhite, Raw_rgbBlack>>, gradientValues |-> <<Grad_redBlue, Grad_two>>,
   hasBody |-> TRUE, elements |-> <<El_h1, El_p>>, sheets |-> <<>>, titles |-> Titles_tag]

Walks == {"typography", "colors", "gradients"}

\* The document where the read of one property of one element throws.
WithUnreadable(pg, walk, at) ==
  IF walk = "colors" THEN [pg EXCEPT !.colorValues[at] = Unreadable]
  ELSE IF walk = "gradients" THEN [pg EXCEPT !.gradientValues[at] = Unreadable]
  ELSE [pg EXCEPT !.elements[at].fontSize = Unreadable]

\* The extractions Promise.all starts: one page.evaluate each, two for the
\* gradients (the walk, then the conversion to hex).
Extractions == {"title", "typography", "colors", "rawGradients", "processedGradients"}

(***************************************************************************)
(* The /scrape handler (scrapeController.scrapeWebsite): validation, the    *)
(* cache, and the classification of a failure by its message.               *)
(***************************************************************************)
\* req.query.url or req.query.nocache when the parameter is not given.
Undefined == <<"undefined">>

CACHE_TTL == 3600000

Url_a == <<"h", "t", "t", "p", "s", ":", "/", "/", "a", ".", "e", "x", "a", "m", "p", "l", "e">>

Url_b404 == <<"h", "t", "t", "p", "s", ":", "/", "/", "b", ".", "e", "x", "a", "m", "p", "l", "e", "/", "4", "0", "4">>

Url_noScheme == <<"a", ".", "e", "x", "a", "m", "p", "l", "e">>

ValidUrls == {Url_a, Url_b404}

RequestUrls == ValidUrls \cup {Url_noScheme, <<>>, Undefined}

Flag_true == <<"t", "r", "u", "e">>

Flag_one == <<"1">>

NocacheFlags == {Undefined, Flag_true, Flag_one}

\* new URL(url) does not throw: a scheme (a letter, then letters, digits, '+',
\* '-' or '.') before the first ':', something after it and no space.
IsParsableUrl(url) ==
  LET colon == IndexOf(url, ":")
  IN  /\ colon > 0
      /\ IsLetter(url[1])
      /\ \A i \in 1..colon : IsLetter(url[i]) \/ IsDigit(url[i]) \/ url[i] \in {"+", "-", "."}
      /\ Len(url) > colon + 1
      /\ \A i \in 1..Len(url) : url[i] # " "

\* A useCache that ignores the nocache parameter.
useCacheAlways(nocache) == TRUE

\* const useCache = nocache !== 'true'
useCache(nocache) == nocache # Flag_true

\* The causes of a failed scrape and the text of the error each one throws:
\* page.goto rejects with the network error text followed by ' at ' and the URL.
Causes ==
  {"networkChanged", "navigationTimeout", "nameNotResolved", "connectionRefused",
   "connectionTimedOut", "notFound", "forbidden", "aborted", "certificate", "protocol",
   "emptyResponse", "extraction"}

Str_at == <<" ", "a", "t", " ">>

ErrorMessage(cause, url) ==
  IF cause = "networkChanged" THEN <<"n", "e", "t", ":", ":", "E", "R", "R", "_", "N", "E", "T", "W", "O", "R", "K", "_", "C", "H", "A", "N", "G", "E", "D">> \o Str_at \o url
  ELSE IF cause = "navigationTimeout" THEN <<"N", "a", "v", "i", "g", "a", "t", "i", "o", "n", " ", "t", "i", "m", "e", "o", "u", "t", " ", "o", "f", " ", "6", "0", "0", "0", "0", " ", "m", "s", " ", "e", "x", "c", "e", "e", "d", "e", "d">>
  ELSE IF cause = "nameNotResolved" THEN <<"n", "e", "t", ":", ":", "E", "R", "R", "_", "N", "A", "M", "E", "_", "N", "O", "T", "_", "R", "E", "S", "O", "L", "V", "E", "D">> \o Str_at \o url
  ELSE IF cause = "connectionRefused" THEN <<"n", "e", "t", ":", ":", "E", "R", "R", "_", "C", "O", "N", "N", "E", "C", "T", "I", "O", "N", "_", "R", "E", "F", "U", "S", "E", "D">> \o Str_at \o url
  ELSE IF cause = "connectionTimedOut" THEN <<"n", "e", "t", ":", ":", "E", "R", "R", "_", "C", "O", "N", "N", "E", "C", "T", "I", "O", "N", "_", "T", "I", "M", "E", "D", "_", "O", "U", "T">> \o Str_at \o url
  ELSE IF cause = "notFound" THEN <<"R", "e", "q", "u", "e", "s", "t", " ", "f", "a", "i", "l", "e", "d", " ", "w", "i", "t", "h", " ", "s", "t", "a", "t", "u", "s", " ", "c", "o", "d", "e", " ", "4", "0", "4">>
  ELSE IF cause = "forbidden" THEN <<"R", "e", "q", "u", "e", "s", "t", " ", "f", "a", "i", "l", "e", "d", " ", "w", "i", "t", "h", " ", "s", "t", "a", "t", "u", "s", " ", "c", "o", "d", "e", " ", "4", "0", "3">>
  ELSE IF cause = "aborted" THEN <<"n", "e", "t", ":", ":", "E", "R", "R", "_", "A", "B", "O", "R", "T", "E", "D">> \o Str_at \o url
  ELSE IF cause = "certificate" THEN <<"n", "e", "t", ":", ":", "E", "R", "R", "_", "C", "E", "R", "T", "_", "A", "U", "T", "H", "O", "R", "I", "T", "Y", "_", "I", "N", "V", "A", "L", "I", "D">> \o Str_at \o url
  ELSE IF cause = "protocol" THEN <<"P", "r", "o", "t", "o", "c", "o", "l", " ", "e", "r", "r", "o", "r", " ", "(", "P", "a", "g", "e", ".", "n", "a", "v", "i", "g", "a", "t", "e", ")", ":", " ", "T", "a", "r", "g", "e", "t", " ", "c", "l", "o", "s", "e", "d", ".">>
  ELSE IF cause = "emptyResponse" THEN <<"n", "e", "t", ":", ":", "E", "R", "R", "_", "E", "M", "P", "T", "Y", "_", "R", "E", "S", "P", "O", "N", "S", "E">> \o Str_at \o url
  ELSE <<"E", "v", "a", "l", "u", "a", "t", "i", "o", "n", " ", "f", "a", "i", "l", "e", "d", ":", " ", "T", "y", "p", "e", "E", "r", "r", "o", "r">>

Answer(http, code) == [http |-> http, code |-> code]

\* The catch block of scrapeWebsite: the first marker the message includes, in
\* the order of the else-if chain.
classifyError(message) ==
  IF Includes(message, <<"n", "e", "t", ":", ":", "E", "R", "R", "_", "N", "E", "T", "W", "O", "R", "K", "_", "C", "H", "A", "N", "G", "E", "D">>) THEN Answer(503, "NETWORK_CHANGED")
  ELSE IF Includes(message, <<"N", "a", "v", "i", "g", "a", "t", "i", "o", "n", " ", "t", "i", "m", "e", "o", "u", "t">>) THEN Answer(504, "GATEWAY_TIMEOUT")
  ELSE IF Includes(message, <<"E", "R", "R", "_", "N", "A", "M", "E", "_", "N", "O", "T", "_", "R", "E", "S", "O", "L", "V", "E", "D">>) THEN Answer(400, "DOMAIN_NOT_FOUND")
  ELSE IF Includes(message, <<"E", "R", "R", "_", "C", "O", "N", "N", "E", "C", "T", "I", "O", "N", "_", "R", "E", "F", "U", "S", "E", "D">>) THEN Answer(503, "CONNECTION_REFUSED")
  ELSE IF Includes(message, <<"E", "R", "R", "_", "C", "O", "N", "N", "E", "C", "T", "I", "O", "N", "_", "T", "I", "M", "E", "D", "_", "O", "U", "T">>) THEN Answer(504, "CONNECTION_TIMEOUT")
  ELSE IF Includes(message, <<"4", "0", "4">>) THEN Answer(404, "PAGE_NOT_FOUND")
  ELSE IF Includes(message, <<"4", "0", "3">>) THEN Answer(403, "ACCESS_FORBIDDEN")
  ELSE IF Includes(message, <<"n", "e", "t", ":", ":", "E", "R", "R", "_", "A", "B", "O", "R", "T", "E", "D">>) THEN Answer(500, "REQUEST_ABORTED")
  ELSE IF Includes(message, <<"n", "e", "t", ":", ":", "E", "R", "R", "_", "C", "E", "R", "T">>) THEN Answer(526, "SSL_ERROR")
  ELSE IF Includes(message, <<"P", "r", "o", "t", "o", "c", "o", "l", " ", "e", "r", "r", "o", "r">>) THEN Answer(500, "PROTOCOL_ERROR")
  ELSE Answer(500, "INTERNAL_ERROR")

\* res.status(http).json of an error, for request id.
ErrorResponse(id, url, nocache, answer, cause) ==
  [id |-> id, url |-> url, nocache |-> nocache, http |-> answer.http,
   launched |-> cause \notin {"missingUrl", "invalidUrl"}, cause |-> cause,
   body |-> [status |-> "error", code |-> answer.code]]

\* res.json(data) for request id; launched tells whether the request ran a browser.
DataResponse(id, url, nocache, data, launched) ==
  [id |-> id, url |-> url, nocache |-> nocache, http |-> 200, launched |-> launched,
   cause |-> "none", body |-> data]

\* The result of the scrape run by request id.
ScrapeResult(id, url) == [status |-> "success", url |-> url, scrape |-> id]

(***************************************************************************)
(* retry, navigateToUrl and the try / catch / finally of scrapeWebsite.     *)
(***************************************************************************)
\* The values MAX_RETRIES and RETRY_DELAY may have in process.env: unset, or a
\* string.
Env_zero == <<"0">>
Env_two == <<"2">>
Env_abc == <<"a", "b", "c">>

NoEnv == [MAX_RETRIES |-> Undefined, RETRY_DELAY |-> Undefined]

\* The settings a .env file may give: a count and a delay, no attempt at all,
\* and values that are no numbers.
EnvFiles ==
  {[MAX_RETRIES |-> Env_two, RETRY_DELAY |-> Env_zero],
   [MAX_RETRIES |-> Env_zero, RETRY_DELAY |-> Undefined],
   [MAX_RETRIES |-> Env_abc, RETRY_DELAY |-> Undefined],
   [MAX_RETRIES |-> Undefined, RETRY_DELAY |-> Env_abc]}

\* parseInt of a string: its leading decimal digits, NaN when it has none.
parseInt(str) ==
  LET s == Trim(str)
      d == DigitRunLen(s, 1)
  IN  IF d = 0 THEN NaN ELSE ParseDec(SubSeq(s, 1, d))

\* parseInt(process.env.X || fallback): an unset or empty variable is falsy, and
\* parseInt of the fallback, an integer or NaN, is the fallback.
parseIntOr(value, fallback) ==
  IF value = Undefined \/ value = <<>> THEN fallback ELSE parseInt(value)

\* The arguments navigateToUrl passes to retry.
maxRetriesArgument == parseIntOr(env.MAX_RETRIES, 3)

retryDelayArgument == parseIntOr(env.RETRY_DELAY, 5000)

\* const actualMaxRetries = parseInt(process.env.MAX_RETRIES || maxRetries)
actualMaxRetries(maxRetries) == parseIntOr(env.MAX_RETRIES, maxRetries)

\* const actualRetryDelay = parseInt(process.env.RETRY_DELAY || retryDelay)
actualRetryDelay(retryDelay) == parseIntOr(env.RETRY_DELAY, retryDelay)

\* A comparison with NaN is false.
LessThan(a, b) == a # NaN /\ b # NaN /\ a < b

LessOrEqual(a, b) == a # NaN /\ b # NaN /\ a <= b

\* The loop that runs one attempt more than maxRetries.
loopRunsOnceMore(attempt, maxRetries) == LessOrEqual(attempt, actualMaxRetries(maxRetries) + 1)

\* for (let attempt = 1; attempt <= actualMaxRetries; attempt++): the loop test.
loopRuns(attempt, maxRetries) == LessOrEqual(attempt, actualMaxRetries(maxRetries))

\* if (attempt < actualMaxRetries): a wait follows the failed attempt.
waitFollows(attempt, maxRetries) == LessThan(attempt, actualMaxRetries(maxRetries))

\* actualRetryDelay * Math.pow(1.5, attempt - 1), handed to setTimeout, which
\* fires after 1 ms when the delay is NaN or below 1.
backoffDelay(attempt, retryDelay) ==
  LET delay == actualRetryDelay(retryDelay)
  IN  IF delay = NaN THEN NaN ELSE (delay * 3 ^ (attempt - 1)) \div 2 ^ (attempt - 1)

timerDelay(delay) == IF delay = NaN \/ delay < 1 THEN 1 ELSE delay

\* A thrown value: an Error of a cause, raised by the attempt of that number
\* (0 outside the retry loop); NoError is the value undefined, which lastError
\* holds until an attempt fails; NotThrown marks a call that has caught nothing.
Error(cause, attempt) == [cause |-> cause, attempt |-> attempt]

NoError == Error("undefined", 0)

NotThrown == Error("none", 0)

\* The error page.goto rejects with.
GotoCauses == {"navigationTimeout"}

\* A call of scrapeWebsite: where it stands, its request, its local variable
\* browser (the browser it launched, named by the call's number; 0 while undefined), the loop
\* variable and lastError of retry, the calls of fn and the waits of retry so far,
\* the delay of the running timer, what the catch block caught, the responses
\* sent to the request, and how the call ended.
\* The browser call id launches: not started, running or closed, and the call
\* that closed it.
NoBrowser == [state |-> "none", closedBy |-> 0]

NoHandler ==
  [pc |-> "absent", url |-> Undefined, nocache |-> Undefined, browser |-> 0,
   attempt |-> 0, calls |-> 0, waits |-> 0, timer |-> 0, lastError |-> NoError,
   caught |-> NotThrown, answered |-> 0, outcome |-> "none"]

(***************************************************************************)
(* The state machine: a page is loaded, then an extractor runs on it.      *)
(***************************************************************************)
EmptyPage ==
  [colorValues |-> <<>>, gradientValues |-> <<>>, hasBody |-> TRUE, elements |-> <<>>,
   sheets |-> <<>>, titles |-> NoTitles]

Init ==
  /\ phase = "idle"
  /\ page = EmptyPage
  /\ authored = NoAuthored
  /\ colors = <<>>
  /\ rawGradients = <<>>
  /\ gradients = <<>>
  /\ typography = <<>>
  /\ meta = <<>>
  /\ title = <<>>
  /\ pending = {}
  /\ run = [n |-> 0, byClass |-> FALSE]
  /\ previous = NoResult
  /\ snapshot = EmptyPage
  /\ cache = [u \in ValidUrls |-> Null]
  /\ clock = 0
  /\ requests = {}
  /\ response = NoResult
  /\ served = 0
  /\ env = NoEnv
  /\ handlers = [id \in 1..MaxRequests |-> NoHandler]
  /\ browsers = [id \in 1..MaxRequests |-> NoBrowser]

\* page.goto for a page whose elements carry the given colour values, in walk order.
NavigateColors ==
  /\ phase = "idle"
  /\ \E vs \in SeqsUpTo(RawColorValues, MaxValues) :
       page' = [EmptyPage EXCEPT !.colorValues = vs]
  /\ phase' = "loaded"
  /\ UNCHANGED <<authored, colors, rawGradients, gradients, typography, meta, scrapeVars, serverVars>>

ExtractColors ==
  /\ phase = "loaded"
  /\ colors' = extractColors(page.colorValues)
  /\ phase' = "colorsDone"
  /\ UNCHANGED <<page, authored, rawGradients, gradients, typography, meta, scrapeVars, serverVars>>

NextColors == NavigateColors \/ ExtractColors

SpecColors == Init /\ [][NextColors]_vars

\* page.goto for a page whose elements carry the given property values, in walk
\* order, with or without a body element.
NavigateGradients ==
  /\ phase = "idle"
  /\ \E vs \in SeqsUpTo(GradientValues, MaxValues), body \in BOOLEAN :
       page' = [EmptyPage EXCEPT !.gradientValues = vs, !.hasBody = body]
  /\ phase' = "loaded"
  /\ UNCHANGED <<authored, colors, rawGradients, gradients, typography, meta, scrapeVars, serverVars>>

\* page.goto for a page with one property value: an authored gradient.
NavigateAuthoredGradient ==
  /\ phase = "idle"
  /\ \E fn \in GradientFunctions, o \in Orientations, ss \in SeqsUpTo(Stops, MaxStops) :
       LET a == [kind |-> "gradient", fn |-> fn, orientation |-> o, stops |-> ss]
       IN  /\ authored' = a
           /\ page' = [EmptyPage EXCEPT !.gradientValues = <<GradientText(a)>>]
  /\ phase' = "loaded"
  /\ UNCHANGED <<colors, rawGradients, gradients, typography, meta, scrapeVars, serverVars>>

\* page.goto for a page with one property value that is no gradient.
NavigatePlainValue ==
  /\ phase = "idle"
  /\ \E v \in PlainValues :
       /\ authored' = [kind |-> "plain", text |-> v]
       /\ page' = [EmptyPage EXCEPT !.gradientValues = <<v>>]
  /\ phase' = "loaded"
  /\ UNCHANGED <<colors, rawGradients, gradients, typography, meta, scrapeVars, serverVars>>

\* page.goto for a page where one property value has unbalanced parentheses, alone
\* or before or after a well-formed value.
NavigateMalformedValue ==
  /\ phase = "idle"
  /\ \E m \in MalformedValues, before \in SeqsUpTo(GradientValues, 1),
        after \in SeqsUpTo(GradientValues, 1) :
       /\ authored' = [kind |-> "malformed", text |-> m, others |-> before \o after]
       /\ page' = [EmptyPage EXCEPT !.gradientValues = before \o <<m>> \o after]
  /\ phase' = "loaded"
  /\ UNCHANGED <<colors, rawGradients, gradients, typography, meta, scrapeVars, serverVars>>

\* extractGradients up to its first await: the in-page walk.
EvaluateRawGradients ==
  /\ phase = "loaded"
  /\ rawGradients' = collectRawGradients(page.gradientValues)
  /\ phase' = "rawDone"
  /\ UNCHANGED <<page, authored, colors, gradients, typography, meta, scrapeVars, serverVars>>

\* extractGradients after it: conversion to hex in the page, naming, dedupe.
ProcessGradients ==
  /\ phase = "rawDone"
  /\ gradients' = uniqueByKey(<<>>, namedGradients(rawGradients, page.hasBody))
  /\ phase' = "gradientsDone"
  /\ UNCHANGED <<page, authored, colors, rawGradients, typography, meta, scrapeVars, serverVars>>

NextGradients ==
  \/ NavigateGradients
  \/ NavigateAuthoredGradient
  \/ NavigatePlainValue
  \/ NavigateMalformedValue
  \/ EvaluateRawGradients
  \/ ProcessGradients

SpecGradients == Init /\ [][NextGradients]_vars

\* page.goto for a page with the given elements, in document order, and sheets.
NavigateTypography ==
  /\ phase = "idle"
  /\ \E els \in SeqsUpTo(Elements, MaxElements), sh \in SheetLists :
       page' = [EmptyPage EXCEPT !.elements = els, !.sheets = sh]
  /\ phase' = "loaded"
  /\ UNCHANGED <<authored, colors, rawGradients, gradients, typography, meta, scrapeVars, serverVars>>

\* The result of the extractor becomes the typography and meta of the response.
ReturnTypography(result) ==
  /\ typography' = result.typography
  /\ meta' = result.meta

\* typographyService.extractTypography, first definition.
ExtractTypography ==
  /\ phase = "loaded"
  /\ ReturnTypography(extractTypography(page))
  /\ phase' = "typographyDone"
  /\ UNCHANGED <<page, authored, colors, rawGradients, gradients, scrapeVars, serverVars>>

\* typographyService.extractTypography, second definition.
ExtractTypographyByClass ==
  /\ phase = "loaded"
  /\ ReturnTypography(extractTypographyByClass(page))
  /\ phase' = "typographyByClassDone"
  /\ UNCHANGED <<page, authored, colors, rawGradients, gradients, scrapeVars, serverVars>>

\* The /scrape handler of server.js: the page.evaluate block that fills
\* typography and meta.
ScrapeTypography ==
  /\ phase = "loaded"
  /\ ReturnTypography(extractTypographyByClass(page))
  /\ phase' = "scrapeDone"
  /\ UNCHANGED <<page, authored, colors, rawGradients, gradients, scrapeVars, serverVars>>

NextTypography ==
  \/ NavigateTypography
  \/ ExtractTypography
  \/ ExtractTypographyByClass
  \/ ScrapeTypography

SpecTypography == Init /\ [][NextTypography]_vars

\* The response object of scrapeWebsite.
Result ==
  [status |-> "success", title |-> title, typography |-> typography, meta |-> meta,
   colors |-> colors, gradients |-> gradients]

StartRun(pg) ==
  /\ page' = pg
  /\ pending' = Extractions
  /\ title' = <<>>
  /\ colors' = <<>>
  /\ rawGradients' = <<>>
  /\ gradients' = <<>>
  /\ typography' = <<>>
  /\ meta' = <<>>

\* navigateToUrl for a request: the document is loaded and Promise.all starts the
\* four extractions.
NavigateDocument ==
  /\ phase = "idle"
  /\ \E t \in TitleSources, els \in DocElements, cs \in DocColors, gs \in DocGradients,
        body \in BOOLEAN, byClass \in BOOLEAN :
       /\ snapshot' = [colorValues |-> cs, gradientValues |-> gs, hasBody |-> body,
                       elements |-> els, sheets |-> <<>>, titles |-> t]
       /\ StartRun(snapshot')
       /\ run' = [n |-> 1, byClass |-> byClass]
  /\ phase' = "extracting"
  /\ UNCHANGED <<authored, previous, serverVars>>

\* navigateToUrl for a document where one read of one walk throws.
NavigateUnreadable ==
  /\ phase = "idle"
  /\ \E walk \in Walks, at \in 1..2, byClass \in BOOLEAN :
       /\ snapshot' = WithUnreadable(FullDocument, walk, at)
       /\ StartRun(snapshot')
       /\ authored' = [kind |-> "unreadable", walk |-> walk, at |-> at]
       /\ run' = [n |-> 1, byClass |-> byClass]
  /\ phase' = "extracting"
  /\ UNCHANGED <<previous, serverVars>>

\* A rejected extraction rejects Promise.all: the handler answers with an error
\* and closes the browser under the extractions still running.
RejectAll ==
  /\ phase' = "failed"
  /\ pending' = {}
  /\ UNCHANGED <<page, authored, colors, rawGradients, gradients, typography, meta, title,
                 run, previous, snapshot, serverVars>>

\* extractPageTitle
EvaluateTitle ==
  /\ phase = "extracting"
  /\ "title" \in pending
  /\ title' = extractPageTitle(page)
  /\ pending' = pending \ {"title"}
  /\ UNCHANGED <<phase, page, authored, colors, rawGradients, gradients, typography, meta,
                 run, previous, snapshot, serverVars>>

\* extractTypography, whichever definition the build exports.
EvaluateTypography ==
  /\ phase = "extracting"
  /\ "typography" \in pending
  /\ IF typographyWalkThrows(page, run.byClass) THEN RejectAll
     ELSE /\ ReturnTypography(IF run.byClass THEN extractTypographyByClass(page)
                                              ELSE extractTypography(page))
          /\ pending' = pending \ {"typography"}
          /\ UNCHANGED <<phase, page, authored, colors, rawGradients, gradients, title,
                         run, previous, snapshot, serverVars>>

\* extractColors
EvaluateColors ==
  /\ phase = "extracting"
  /\ "colors" \in pending
  /\ IF colorWalkThrows(page) THEN RejectAll
     ELSE /\ colors' = extractColors(page.colorValues)
          /\ pending' = pending \ {"colors"}
          /\ UNCHANGED <<phase, page, authored, rawGradients, gradients, typography, meta,
                         title, run, previous, snapshot, serverVars>>

\* extractGradients up to its first await.
EvaluateGradientWalk ==
  /\ phase = "extracting"
  /\ "rawGradients" \in pending
  /\ rawGradients' = collectRawGradients(gradientWalkValues(page))
  /\ pending' = pending \ {"rawGradients"}
  /\ UNCHANGED <<phase, page, authored, colors, gradients, typography, meta, title,
                 run, previous, snapshot, serverVars>>

\* extractGradients after it: the conversion in the page, which attaches and
\* removes a temporary element for every colour, then naming and dedupe.
EvaluateProcessedGradients ==
  /\ phase = "extracting"
  /\ "processedGradients" \in pending
  /\ "rawGradients" \notin pending
  /\ gradients' = uniqueByKey(<<>>, namedGradients(rawGradients, page.hasBody))
  /\ page' = processedGradientsDocument(page, rawGradients)
  /\ pending' = pending \ {"processedGradients"}
  /\ UNCHANGED <<phase, authored, colors, rawGradients, typography, meta, title,
                 run, previous, snapshot, serverVars>>

\* Promise.all resolves and the result is built; the same document is then loaded
\* afresh and the pipeline runs on it a second time.
FinishFirstRun ==
  /\ phase = "extracting"
  /\ pending = {}
  /\ run.n = 1
  /\ previous' = Result
  /\ run' = [run EXCEPT !.n = 2]
  /\ StartRun(snapshot)
  /\ UNCHANGED <<phase, authored, snapshot, serverVars>>

\* Promise.all resolves for the second run.
FinishSecondRun ==
  /\ phase = "extracting"
  /\ pending = {}
  /\ run.n = 2
  /\ phase' = "pipelineDone"
  /\ UNCHANGED <<page, authored, colors, rawGradients, gradients, typography, meta, title,
                 pending, run, previous, snapshot, serverVars>>

NextPipeline ==
  \/ NavigateDocument
  \/ NavigateUnreadable
  \/ EvaluateTitle
  \/ EvaluateTypography
  \/ EvaluateColors
  \/ EvaluateGradientWalk
  \/ EvaluateProcessedGradients
  \/ FinishFirstRun
  \/ FinishSecondRun

SpecPipeline == Init /\ [][NextPipeline]_vars

\* An entry stamped with the start of the server's clock.
cacheEntryUnstamped(result, now) == [isNull |-> FALSE, data |-> result, timestamp |-> 0]

\* cache.set(url, { data: result, timestamp: Date.now() }): the entry.
cacheEntry(result, now) == [isNull |-> FALSE, data |-> result, timestamp |-> now]

\* An entry that has reached the TTL counted as fresh.
withinTTLInclusive(now, timestamp) == now - timestamp <= CACHE_TTL

\* Date.now() - cachedData.timestamp < CACHE_TTL
withinTTL(now, timestamp) == now - timestamp < CACHE_TTL

\* A request whose browser is launched.
Launch(id, url, nocache) ==
  requests' = requests \cup {[id |-> id, url |-> url, nocache |-> nocache]}

\* scrapeWebsite up to its first await: validation, then the cache (a fresh
\* entry is served, an expired one is deleted), then the browser is launched.
Receive(id, url, nocache) ==
  IF url = Undefined \/ url = <<>>
  THEN /\ response' = ErrorResponse(id, url, nocache, Answer(400, "MISSING_URL"), "missingUrl")
       /\ UNCHANGED <<cache, requests>>
  ELSE IF ~IsParsableUrl(url)
  THEN /\ response' = ErrorResponse(id, url, nocache, Answer(400, "INVALID_URL_FORMAT"),
                                  "invalidUrl")
       /\ UNCHANGED <<cache, requests>>
  ELSE IF useCache(nocache) /\ ~cache[url].isNull
  THEN IF withinTTL(clock, cache[url].timestamp)
       THEN /\ response' = DataResponse(id, url, nocache, cache[url].data, FALSE)
            /\ UNCHANGED <<cache, requests>>
       ELSE /\ cache' = [cache EXCEPT ![url] = Null]
            /\ Launch(id, url, nocache)
            /\ UNCHANGED response
  ELSE /\ Launch(id, url, nocache)
       /\ UNCHANGED <<cache, response>>

\* A request reaches scrapeWebsite, which runs up to its first await.
Arrive ==
  /\ phase = "idle"
  /\ served < MaxRequests
  /\ \E url \in RequestUrls, nocache \in NocacheFlags : Receive(served + 1, url, nocache)
  /\ served' = served + 1
  /\ UNCHANGED <<phase, page, authored, colors, rawGradients, gradients, typography, meta,
                 scrapeVars, clock>>

\* GET /scrape?url=..&nocache=..
ReceiveRequest == Arrive /\ UNCHANGED handlerVars

\* The request a step of ReceiveRequest takes in: answered at once, it is the
\* request of the new response; otherwise it is the request whose browser starts.
Arriving ==
  IF requests' # requests
  THEN CHOOSE r \in requests' \ requests : TRUE
  ELSE [id |-> response'.id, url |-> response'.url, nocache |-> response'.nocache]

\* Promise.all resolved: the result is built, cached when the request uses the
\* cache, and sent; the browser is closed.
ScrapeSucceeds ==
  /\ phase = "idle"
  /\ \E r \in requests :
       /\ cache' = IF useCache(r.nocache)
                   THEN [cache EXCEPT ![r.url] = cacheEntry(ScrapeResult(r.id, r.url), clock)]
                   ELSE cache
       /\ response' = DataResponse(r.id, r.url, r.nocache, ScrapeResult(r.id, r.url), TRUE)
       /\ requests' = requests \ {r}
  /\ UNCHANGED <<phase, page, authored, colors, rawGradients, gradients, typography, meta,
                 scrapeVars, clock, served, handlerVars>>

\* The scrape of request r throws for the given cause: the catch block answers.
Fail(r, cause) ==
  /\ response' = ErrorResponse(r.id, r.url, r.nocache,
                               classifyError(ErrorMessage(cause, r.url)), cause)
  /\ requests' = requests \ {r}
  /\ UNCHANGED <<phase, page, authored, colors, rawGradients, gradients, typography, meta,
                 scrapeVars, cache, clock, served, handlerVars>>

\* A scrape fails after the navigation retries.
ScrapeFails == \E r \in requests : Fail(r, "navigationTimeout")

\* A scrape fails for any cause.
ScrapeFailsForCause == \E r \in requests, cause \in Causes : Fail(r, cause)

\* The instants Date.now() is read at: each whole TTL, one millisecond before
\* and one after.
Instants == {k * CACHE_TTL + e : k \in 0..MaxHours, e \in {0 - 1, 0, 1}} \cap Nat

\* Time passes.
Tick ==
  /\ phase = "idle"
  /\ \E t \in Instants : t > clock /\ clock' = t
  /\ UNCHANGED <<phase, page, authored, colors, rawGradients, gradients, typography, meta,
                 scrapeVars, cache, requests, response, served, handlerVars>>

NextServer ==
  \/ ReceiveRequest
  \/ ScrapeSucceeds
  \/ ScrapeFails
  \/ Tick

SpecServer == Init /\ [][NextServer]_vars

\* One request at a time, failing for every cause.
ReceiveOneRequest ==
  /\ requests = {}
  /\ ReceiveRequest

NextErrors ==
  \/ ReceiveOneRequest
  \/ ScrapeSucceeds
  \/ ScrapeFailsForCause

SpecErrors == Init /\ [][NextErrors]_vars

(***************************************************************************)
(* scrapeWebsite step by step: each await of a call is a step, so that the *)
(* calls of concurrent requests interleave as the event loop lets them.    *)
(***************************************************************************)
\* What the other parts of the program hold while a call proceeds.
Elsewhere ==
  UNCHANGED <<phase, page, authored, colors, rawGradients, gradients, typography, meta,
              scrapeVars, clock, served, env>>

\* The request of call id, as the set requests holds it.
RequestOf(id) == [id |-> id, url |-> handlers[id].url, nocache |-> handlers[id].nocache]

\* require('dotenv').config() before the server listens.
LoadEnv ==
  /\ phase = "idle"
  /\ served = 0
  /\ env = NoEnv
  /\ env' \in EnvFiles
  /\ UNCHANGED <<phase, page, authored, colors, rawGradients, gradients, typography, meta,
                 scrapeVars, cache, clock, requests, response, served, handlers, browsers>>

\* A call that is over: its local variables are gone; the responses sent and the
\* way it ended are kept.
over(h) ==
  [NoHandler EXCEPT !.pc = "done", !.url = h.url, !.nocache = h.nocache,
                    !.browser = h.browser, !.answered = h.answered, !.outcome = h.outcome]

\* The requests the step-by-step calls are followed for.
HandledUrls == {Url_a, Url_noScheme}

HandledFlags == {Undefined}

\* A request arrives: it is answered at once (validation error, cached result) and
\* the call returns, or the call reaches await puppeteer.launch(launchOptions).
HandleRequest ==
  /\ Arrive
  /\ Arriving.url \in HandledUrls
  /\ Arriving.nocache \in HandledFlags
  /\ handlers' = [handlers EXCEPT ![served + 1] =
                    IF requests' # requests
                    THEN [NoHandler EXCEPT !.pc = "launch", !.url = Arriving.url,
                                           !.nocache = Arriving.nocache]
                    ELSE over([NoHandler EXCEPT !.url = Arriving.url,
                                                !.nocache = Arriving.nocache,
                                                !.answered = 1, !.outcome = "returned"])]
  /\ UNCHANGED <<env, browsers>>

\* The browser the finally block closes: the one the call's own variable names.
browserOf(id) == handlers[id].browser

\* browser.close() at the end of the try block only: a call that caught an error
\* is over with its browser left running.
closeAfterSuccess(h) ==
  IF h.browser # 0 /\ h.caught = NotThrown THEN [h EXCEPT !.pc = "close"] ELSE over(h)

\* finally { if (browser) { await browser.close() } }: the call goes on to close
\* its browser, or is over.
finally(h) == IF h.browser # 0 THEN [h EXCEPT !.pc = "close"] ELSE over(h)

\* The catch block for a caught value, h being the variables of the call as the
\* throw leaves them.  An Error is answered by the code its
\* message selects; on undefined, error.message throws a TypeError out of the
\* catch block: nothing is sent and the call ends rejected, after finally.
catch(id, h, error) ==
  /\ IF error = NoError
     THEN /\ handlers' = [handlers EXCEPT ![id] =
                            finally([h EXCEPT !.caught = error, !.outcome = "rejected"])]
          /\ UNCHANGED response
     ELSE /\ handlers' = [handlers EXCEPT ![id] =
                            finally([h EXCEPT !.caught = error, !.answered = @ + 1,
                                              !.outcome = "returned"])]
          /\ response' = ErrorResponse(id, handlers[id].url, handlers[id].nocache,
                                       classifyError(ErrorMessage(error.cause, handlers[id].url)),
                                       error.cause)
  /\ requests' = IF handlers[id].browser # 0 THEN requests ELSE requests \ {RequestOf(id)}
  /\ UNCHANGED <<cache, browsers>>

\* browser = await puppeteer.launch(launchOptions) resolves.
LaunchResolves(id) ==
  /\ handlers[id].pc = "launch"
  /\ browsers' = [browsers EXCEPT ![id] = [@ EXCEPT !.state = "open"]]
  /\ handlers' = [handlers EXCEPT ![id] = [@ EXCEPT !.pc = "setup", !.browser = id]]
  /\ UNCHANGED <<cache, requests, response>>
  /\ Elsewhere

\* puppeteer.launch rejects: no browser, the catch block answers.
LaunchRejects(id) ==
  /\ handlers[id].pc = "launch"
  /\ catch(id, handlers[id], Error("protocol", 0))
  /\ Elsewhere

\* retry(fn, maxRetries, retryDelay) up to its first await: the first call of fn,
\* or throw lastError when the loop does not run.
retry(id, maxRetries, retryDelay) ==
  IF loopRuns(1, maxRetries)
  THEN /\ handlers' = [handlers EXCEPT ![id] = [@ EXCEPT !.pc = "goto", !.attempt = 1,
                                                         !.calls = @ + 1]]
       /\ UNCHANGED <<cache, requests, response, browsers>>
  ELSE catch(id, handlers[id], handlers[id].lastError)

\* browser.newPage() and the settings of the page resolve; navigateToUrl calls
\* retry.
SetupResolves(id) ==
  /\ handlers[id].pc = "setup"
  /\ retry(id, maxRetriesArgument, retryDelayArgument)
  /\ Elsewhere

\* One of them rejects.
SetupRejects(id) ==
  /\ handlers[id].pc = "setup"
  /\ catch(id, handlers[id], Error("protocol", 0))
  /\ Elsewhere

\* return await fn(): page.goto resolved, retry and navigateToUrl return, and the
\* call waits for page.waitForTimeout(2000) and the four extractors.
GotoResolves(id) ==
  /\ handlers[id].pc = "goto"
  /\ handlers' = [handlers EXCEPT ![id] = [@ EXCEPT !.pc = "extract"]]
  /\ UNCHANGED <<cache, requests, response, browsers>>
  /\ Elsewhere

\* fn throws (page.goto rejected; after a network error fn first waits 5 s):
\* lastError = error, then the wait when attempt < actualMaxRetries; otherwise
\* attempt++ and the loop test at once: fn is called again, or throw lastError.
GotoRejects(id) ==
  /\ handlers[id].pc = "goto"
  /\ \E cause \in GotoCauses :
       LET error == Error(cause, handlers[id].attempt)
       IN  IF waitFollows(handlers[id].attempt, maxRetriesArgument)
           THEN /\ handlers' =
                     [handlers EXCEPT ![id] =
                        [@ EXCEPT !.pc = "backoff", !.lastError = error, !.waits = @ + 1,
                                  !.timer = timerDelay(backoffDelay(handlers[id].attempt,
                                                                    retryDelayArgument))]]
                /\ UNCHANGED <<cache, requests, response, browsers>>
           ELSE IF loopRuns(handlers[id].attempt + 1, maxRetriesArgument)
           THEN /\ handlers' =
                     [handlers EXCEPT ![id] =
                        [@ EXCEPT !.lastError = error, !.attempt = @ + 1, !.calls = @ + 1]]
                /\ UNCHANGED <<cache, requests, response, browsers>>
           ELSE catch(id, [handlers[id] EXCEPT !.lastError = error], error)
  /\ Elsewhere

\* The timer of the wait fires: attempt++ and the loop test: fn is called
\* again, or throw lastError.
BackoffElapses(id) ==
  /\ handlers[id].pc = "backoff"
  /\ IF loopRuns(handlers[id].attempt + 1, maxRetriesArgument)
     THEN /\ handlers' = [handlers EXCEPT ![id] = [@ EXCEPT !.pc = "goto", !.attempt = @ + 1,
                                                            !.calls = @ + 1, !.timer = 0]]
          /\ UNCHANGED <<cache, requests, response, browsers>>
     ELSE catch(id, handlers[id], handlers[id].lastError)
  /\ Elsewhere

\* Promise.all resolves: the result is built, cached when the request uses the
\* cache, and sent.
ExtractResolves(id) ==
  /\ handlers[id].pc = "extract"
  /\ cache' = IF useCache(handlers[id].nocache)
              THEN [cache EXCEPT ![handlers[id].url] =
                      cacheEntry(ScrapeResult(id, handlers[id].url), clock)]
              ELSE cache
  /\ response' = DataResponse(id, handlers[id].url, handlers[id].nocache,
                              ScrapeResult(id, handlers[id].url), TRUE)
  /\ handlers' = [handlers EXCEPT ![id] =
                    finally([@ EXCEPT !.answered = @ + 1, !.outcome = "returned"])]
  /\ UNCHANGED <<requests, browsers>>
  /\ Elsewhere

\* page.waitForTimeout or an extractor rejects.
ExtractRejects(id) ==
  /\ handlers[id].pc = "extract"
  /\ catch(id, handlers[id], Error("extraction", 0))
  /\ Elsewhere

\* await browser.close() settles (a rejection is logged): the browser is gone and
\* the call is over.
CloseBrowser(id) ==
  /\ handlers[id].pc = "close"
  /\ browsers' = [browsers EXCEPT ![browserOf(id)] = [state |-> "closed", closedBy |-> id]]
  /\ handlers' = [handlers EXCEPT ![id] = over(@)]
  /\ requests' = requests \ {RequestOf(id)}
  /\ UNCHANGED <<cache, response>>
  /\ Elsewhere

\* The next step of call id.
Proceed(id) ==
  \/ LaunchResolves(id)
  \/ LaunchRejects(id)
  \/ SetupResolves(id)
  \/ SetupRejects(id)
  \/ GotoResolves(id)
  \/ GotoRejects(id)
  \/ BackoffElapses(id)
  \/ ExtractResolves(id)
  \/ ExtractRejects(id)
  \/ CloseBrowser(id)

NextHandler ==
  \/ LoadEnv
  \/ HandleRequest
  \/ \E id \in 1..MaxRequests : Proceed(id)

SpecHandler == Init /\ [][NextHandler]_vars

\* Every awaited call settles and the event loop runs the continuation of each
\* settled call.
SpecHandlerFair == SpecHandler /\ \A id \in 1..MaxRequests : WF_vars(Proceed(id))

(***************************************************************************)
(* Reference reading of a colour text, independent of the code: the forms  *)
(* the normaliser accepts and the colour each denotes.                     *)
(***************************************************************************)
IsHexForm(v) ==
  /\ StartsWith(v, <<"#">>)
  /\ Len(v) \in {4, 7}
  /\ \A i \in 2..Len(v) : IsHexDigit(v[i])

IsRgbForm(v) ==
  /\ StartsWith(v, Str_rgb)
  /\ EndsWith(v, <<")">>)
  /\ Len(MatchDigitRuns(v)) >= 3
  /\ \A i \in 1..3 : ParseDec(MatchDigitRuns(v)[i]) <= 255

IsAcceptedForm(v) == IsHexForm(v) \/ IsRgbForm(v)

DenotedColor(v) ==
  IF IsHexForm(v)
  THEN (IF Len(v) = 4
        THEN <<17 * HexVal(v[2]), 17 * HexVal(v[3]), 17 * HexVal(v[4])>>
        ELSE <<16 * HexVal(v[2]) + HexVal(v[3]), 16 * HexVal(v[4]) + HexVal(v[5]),
               16 * HexVal(v[6]) + HexVal(v[7])>>)
  ELSE <<ParseDec(MatchDigitRuns(v)[1]), ParseDec(MatchDigitRuns(v)[2]),
         ParseDec(MatchDigitRuns(v)[3])>>

\* '#' followed by exactly six lowercase hexadecimal digits.
IsCanonicalHex(h) ==
  /\ Len(h) = 7
  /\ h[1] = "#"
  /\ \A i \in 2..7 : h[i] \in Range(LowerHexChars)

AcceptedRaw == {v \in Range(collectRawColors(page.colorValues)) : IsAcceptedForm(v)}

(***************************************************************************)
(* Claims on the colour collector.                                         *)
(***************************************************************************)
\* C1: the list returned by extractColors holds no two records with the same hex field.
C1_DistinctHex ==
  phase = "colorsDone" =>
    \A i, j \in 1..Len(colors) : i # j => colors[i].hex # colors[j].hex

\* C1 witness: two raw values were processed to the same hex and one record was dropped.
C1_Witness ==
  /\ phase = "colorsDone"
  /\ Len(colors) >= 2
  /\ Len(colors) < Len(processedColors(page.colorValues))

\* C6: the returned list is sorted non-decreasing by brightness 299R + 587G + 114B,
\* whatever records lie between two records whose rgb parses.
C6_SortedByBrightness ==
  phase = "colorsDone" =>
    \A i, j \in 1..Len(colors) :
      (i < j /\ ~parseRgb(colors[i].rgb).isNull /\ ~parseRgb(colors[j].rgb).isNull)
        => Brightness(parseRgb(colors[i].rgb)) <= Brightness(parseRgb(colors[j].rgb))

\* C7: every hex of a record made from an accepted input form (#rgb, #rrggbb,
\* rgb(...), rgba(...)) is '#' followed by six lowercase hexadecimal digits.
C7_CanonicalHex ==
  phase = "colorsDone" =>
    \A v \in AcceptedRaw :
      processColor(v) \in Range(colors) => IsCanonicalHex(processColor(v).hex)

\* C8: accepted raw values that denote the same colour normalise to the same hex,
\* so the result never holds two different records made from them.
C8_SameColorSameHex ==
  phase = "colorsDone" =>
    \A v, w \in AcceptedRaw :
      DenotedColor(v) = DenotedColor(w) =>
        /\ processColor(v).hex = processColor(w).hex
        /\ ~(/\ processColor(v) # processColor(w)
             /\ processColor(v) \in Range(colors)
             /\ processColor(w) \in Range(colors))

(***************************************************************************)
(* Claims on the gradient extractor.                                       *)
(***************************************************************************)
GradientPair(g) == <<g.start, g.end>>

\* The position in ng of the first record with the pair of g.
FirstOccurrence(ng, g) == MinOf({i \in 1..Len(ng) : GradientPair(ng[i]) = GradientPair(g)})

\* C2: the list returned by extractGradients holds no two records with the same
\* (start, end) pair; every pair found is kept once, as its first record, and the
\* kept records are in first-occurrence order.
C2_FirstOccurrenceDedupe ==
  phase = "gradientsDone" =>
    LET ng == namedGradients(rawGradients, page.hasBody)
        pairs == [i \in 1..Len(ng) |-> GradientPair(ng[i])]
        first == [k \in 1..Len(gradients) |->
                    IF \E i \in 1..Len(ng) : pairs[i] = GradientPair(gradients[k])
                    THEN FirstOccurrence(ng, gradients[k]) ELSE 0]
    IN  /\ \A k, l \in 1..Len(gradients) :
             k # l => GradientPair(gradients[k]) # GradientPair(gradients[l])
        /\ \A i \in 1..Len(ng) :
             \E k \in 1..Len(gradients) : GradientPair(gradients[k]) = pairs[i]
        /\ \A k \in 1..Len(gradients) : first[k] # 0 /\ gradients[k] = ng[first[k]]
        /\ \A k, l \in 1..Len(gradients) : k < l => first[k] < first[l]

\* C2 witness: a scan that found the same pair more than once and two different pairs.
C2_Witness ==
  /\ phase = "gradientsDone"
  /\ Len(gradients) >= 2
  /\ Len(gradients) < Len(rawGradients)

ValidStops(a) == SelectSeq(a.stops, LAMBDA st : st.valid)

C9_Example == <<"l", "i", "n", "e", "a", "r", "-", "g", "r", "a", "d", "i", "e", "n", "t", "(", "4", "5", "d", "e", "g", ",", " ", "#", "f", "f", "0", "0", "0", "0", " ", "0", "%", ",", " ", "#", "0", "0", "0", "0", "f", "f", " ", "1", "0", "0", "%", ")">>

\* C9: when the gradient starts with a direction ("to ...") or an angle, that
\* segment is no colour stop: the parsed start is the colour of the first colour
\* stop and the parsed end the colour of the last, positions ignored; the example
\* value is parsed as linear from #ff0000 to #0000ff.
C9_OrientationSkipped ==
  /\ (/\ phase \in {"rawDone", "gradientsDone"}
      /\ authored.kind = "gradient"
      /\ authored.orientation # <<>>
      /\ Len(ValidStops(authored)) >= 2)
       => /\ Len(rawGradients) = 1
          /\ rawGradients[1].start = ValidStops(authored)[1].color
          /\ rawGradients[1].end = ValidStops(authored)[Len(ValidStops(authored))].color
          /\ authored.fn = Fn_linear => rawGradients[1].type = "linear"
  /\ (phase = "gradientsDone" /\ page.gradientValues = <<C9_Example>>)
       => /\ Len(gradients) = 1
          /\ gradients[1].start = <<"#", "f", "f", "0", "0", "0", "0">>
          /\ gradients[1].end = <<"#", "0", "0", "0", "0", "f", "f">>

\* C9 witness: the example value, and a value with a direction, positions and three stops.
C9_Witness ==
  /\ phase = "gradientsDone"
  /\ page.gradientValues = <<C9_Example>>
  /\ authored.orientation = Or_45deg
  /\ Len(rawGradients) = 1
  /\ rawGradients[1].type = "linear"

C10_Example == <<"l", "i", "n", "e", "a", "r", "-", "g", "r", "a", "d", "i", "e", "n", "t", "(", "t", "o", " ", "r", "i", "g", "h", "t", ",", " ", "r", "e", "d", ")">>

\* C10: the parser returns none for a value without "gradient" and for a gradient
\* with fewer than 2 valid colour stops; it returns a gradient only for a gradient
\* value with at least 2 valid colour stops.
C10_TwoStopsRequired ==
  (phase \in {"rawDone", "gradientsDone"} /\ authored.kind \in {"gradient", "plain"}) =>
    /\ (rawGradients # <<>>) <=> (authored.kind = "gradient" /\ Len(ValidStops(authored)) >= 2)
    /\ page.gradientValues = <<C10_Example>> => rawGradients = <<>>

\* C10 witness: the one-stop example was parsed and gave none.
C10_Witness ==
  /\ phase = "rawDone"
  /\ authored.kind = "gradient"
  /\ page.gradientValues = <<C10_Example>>
  /\ rawGradients = <<>>


(***************************************************************************)
(* Typography claims.                                                      *)
(***************************************************************************)
TypographyDone == phase \in {"typographyDone", "typographyByClassDone", "scrapeDone"}

CountOf(g) == IF "count" \in DOMAIN g THEN g.count ELSE 0

SumOfCounts(groups) ==
  LET sum[n \in 0..Len(groups)] == IF n = 0 THEN 0 ELSE sum[n - 1] + CountOf(groups[n])
  IN  sum[Len(groups)]

RelevantIndexes == {i \in 1..Len(page.elements) : tagOf(page.elements[i]) \in relevantTags}

\* The group agrees with the element on the tag and the five grouping properties.
SameGrouping(g, el) ==
  LET st == styleObj(el)
  IN  /\ g.tag = tagOf(el)
      /\ g.fontFamily = st.fontFamily /\ g.fontSize = st.fontSize
      /\ g.fontWeight = st.fontWeight /\ g.lineHeight = st.lineHeight
      /\ g.letterSpacing = st.letterSpacing

SameGroupingElements(a, b) ==
  /\ tagOf(a) = tagOf(b)
  /\ \A f \in {"fontFamily", "fontSize", "fontWeight", "lineHeight", "letterSpacing"} :
       styleObj(a)[f] = styleObj(b)[f]

\* C3: the returned groups partition the elements whose tag is in the allowlist:
\* each such element belongs to exactly one group, and the count fields of the
\* groups add up to the number of such elements.
C3_GroupsPartitionRelevant ==
  TypographyDone =>
    /\ \A i \in RelevantIndexes :
         Cardinality({k \in 1..Len(typography) :
                        SameGrouping(typography[k], page.elements[i])}) = 1
    /\ SumOfCounts(typography) = Cardinality(RelevantIndexes)

\* C3 for the first definition of extractTypography alone.
FirstDefinitionPartitions == phase = "typographyDone" => C3_GroupsPartitionRelevant

\* C4: a document of two elements with the same allowlisted tag and the same five
\* grouping properties yields one group with count 2 and duplicatesRemoved 1,
\* whatever their className, text-transform, font-style and text-decoration.
C4_SameGroupingCollapses ==
  /\ TypographyDone
  /\ Len(page.elements) = 2
  /\ tagOf(page.elements[1]) \in relevantTags
  /\ SameGroupingElements(page.elements[1], page.elements[2])
  => /\ Len(typography) = 1
     /\ CountOf(typography[1]) = 2
     /\ meta.duplicatesRemoved = 1

\* C4 for the first definition of extractTypography alone.
FirstDefinitionCollapses == phase = "typographyDone" => C4_SameGroupingCollapses

\* C5: an element whose tag is outside the allowlist appears in no group and in no
\* entry of tagCounts, and totalTagsFound counts allowlisted tags only.
C5_IrrelevantTagIgnored ==
  TypographyDone =>
    /\ \A i \in 1..Len(page.elements) :
         tagOf(page.elements[i]) \notin relevantTags =>
           /\ \A k \in 1..Len(typography) : typography[k].tag # tagOf(page.elements[i])
           /\ \A k \in 1..Len(meta.tagCounts) :
                meta.tagCounts[k].tag # tagOf(page.elements[i])
    /\ meta.totalTagsFound =
         Cardinality({tagOf(page.elements[i]) : i \in RelevantIndexes})

\* C5 for the first definition of extractTypography alone.
FirstDefinitionIgnores == phase = "typographyDone" => C5_IrrelevantTagIgnored


\* C11: a parsed gradient whose text holds a repeating-* function name is
\* classified by that name (repeating-linear, repeating-radial, repeating-conic),
\* the repeating forms taking precedence over linear, radial and conic.
C11_RepeatingPrecedence ==
  phase \in {"rawDone", "gradientsDone"} =>
    \A i \in 1..Len(rawGradients) :
      /\ Includes(rawGradients[i].full, Fn_repeatingLinear)
           => rawGradients[i].type = "repeating-linear"
      /\ Includes(rawGradients[i].full, <<"r", "e", "p", "e", "a", "t", "i", "n", "g", "-", "r", "a", "d", "i", "a", "l">>)
           => rawGradients[i].type = "repeating-radial"
      /\ Includes(rawGradients[i].full, <<"r", "e", "p", "e", "a", "t", "i", "n", "g", "-", "c", "o", "n", "i", "c">>)
           => rawGradients[i].type = "repeating-conic"


C12_Example == <<"r", "g", "b", "a", "(", "1", ",", "2", ",", "3", ",", "0", ".", "5", ")", ",", " ", "#", "f", "f", "f">>

C12_Segments == <<<<"r", "g", "b", "a", "(", "1", ",", "2", ",", "3", ",", "0", ".", "5", ")">>, <<"#", "f", "f", "f">>>>

\* Parentheses are balanced: the depth never goes below 0 (it falls only at a
\* ')', so it is looked at there) and ends at 0.
Balanced(s) ==
  /\ \A i \in {j \in 1..Len(s) : s[j] = ")"} : DepthAfter(s, i) >= 0
  /\ DepthAfter(s, Len(s)) = 0

HasGradient(s) == Includes(s, Str_gradient)

TrimAll(ss) == [i \in 1..Len(ss) |-> Trim(ss[i])]

C13_SortedByFontSize ==
  TypographyDone =>
    \A i, j \in 1..Len(typography) :
      i < j =>
        LET fi == parseFloat(typography[i].fontSize)
            fj == parseFloat(typography[j].fontSize)
        IN  /\ fi.nan => fj.nan
            /\ (~fi.nan /\ ~fj.nan) => fi.v >= fj.v

\* C13 for the documents whose groups all have a numeric font-size.
NumericSizesSorted ==
  (\A i \in 1..Len(typography) : ~parseFloat(typography[i].fontSize).nan)
    => C13_SortedByFontSize


\* A value of one of the forms #rgb, #rrggbb, rgb(...) or rgba(...) with three numbers.
IsWellFormedColor(v) ==
  \/ IsHexForm(v)
  \/ StartsWith(v, Str_rgb) /\ EndsWith(v, <<")">>) /\ Len(MatchDigitRuns(v)) >= 3

\* C15: every collected value that is not a well-formed hex or rgb/rgba form is
\* normalised to hex #000000 with the name "Unknown".
C15_MalformedIsBlackUnknown ==
  phase = "colorsDone" =>
    \A v \in Range(collectRawColors(page.colorValues)) :
      ~IsWellFormedColor(v) =>
        /\ processColor(v).hex = Black
        /\ processColor(v).name = "Unknown"

\* What the normaliser does guarantee: a malformed value is named "Unknown", and
\* its hex is #000000 unless the value starts with '#'.
MalformedIsUnknown ==
  phase = "colorsDone" =>
    \A v \in Range(collectRawColors(page.colorValues)) :
      ~IsWellFormedColor(v) =>
        /\ processColor(v).name = "Unknown"
        /\ ~StartsWith(v, <<"#">>) => processColor(v).hex = Black


\* C16: a property value with unbalanced parentheses produces no gradient: the
\* parser reports none for it, it adds no record to the result, and the result is
\* the one of the other values of the page.
C16_MalformedYieldsNone ==
  (phase \in {"rawDone", "gradientsDone"} /\ authored.kind = "malformed") =>
    /\ extractGradientInfo(authored.text).isNull
    /\ gradientsOfValue(authored.text) = <<>>
    /\ rawGradients = collectRawGradients(authored.others)
    /\ phase = "gradientsDone"
         => gradients = uniqueByKey(<<>>, namedGradients(collectRawGradients(authored.others),
                                                        page.hasBody))

\* What the walk does guarantee: a value whose parentheses never close adds no
\* record, and the other values of the page are scanned whatever the value is.
MissingCloseYieldsNone ==
  (phase \in {"rawDone", "gradientsDone"} /\ authored.kind = "malformed") =>
    /\ authored.text \in {Grad_missingClose, Grad_missingInner, Grad_extraInner}
         => rawGradients = collectRawGradients(authored.others)
    /\ \A i \in 1..Len(authored.others) :
         \A g \in Range(gradientsOfValue(authored.others[i])) : g \in Range(rawGradients)


Without(seq, at) == SubSeq(seq, 1, at - 1) \o SubSeq(seq, at + 1, Len(seq))

\* C17: when the read of one property of one element throws, in any of the three
\* walks, the extraction is not aborted: the pipeline still builds a result, and
\* the colour and gradient lists are those of the other values.
C17_ReadFailureSkipped ==
  authored.kind = "unreadable" =>
    /\ phase # "failed"
    /\ (phase = "pipelineDone" /\ authored.walk = "colors")
         => colors = extractColors(Without(snapshot.colorValues, authored.at))
    /\ (phase = "pipelineDone" /\ authored.walk = "gradients")
         => gradients = uniqueByKey(<<>>,
              namedGradients(collectRawGradients(Without(snapshot.gradientValues, authored.at)),
                             snapshot.hasBody))

\* What the code does guarantee: a read that throws in the gradient walk skips
\* that value only.
GradientReadFailureSkipped ==
  (authored.kind = "unreadable" /\ authored.walk = "gradients") =>
    /\ phase # "failed"
    /\ phase = "pipelineDone"
         => /\ Len(gradients) >= 1
            /\ gradients = uniqueByKey(<<>>,
                 namedGradients(collectRawGradients(Without(snapshot.gradientValues, authored.at)),
                                snapshot.hasBody))


(***************************************************************************)
(* Claims on the /scrape handler.                                          *)
(***************************************************************************)
\* C18: a request with nocache=true for a valid URL is never answered from the
\* cache: a browser is launched for it, and a successful answer carries the
\* result of its own scrape, whatever the cache holds for the URL.
C18_NocacheAlwaysScrapes ==
  (response # NoResult /\ response.nocache = Flag_true /\ response.url \in ValidUrls) =>
    /\ response.launched
    /\ response.body.status = "success"
         => response.body = ScrapeResult(response.id, response.url)

C18_Witness ==
  /\ response # NoResult
  /\ response.nocache = Flag_true
  /\ response.url \in ValidUrls
  /\ response.body.status = "success"
  /\ ~cache[response.url].isNull
  /\ cache[response.url].data.scrape < response.id
  /\ clock - cache[response.url].timestamp < CACHE_TTL

\* The table of error codes of the README: the code and HTTP status of each cause.
ReadmeTable(cause) ==
  IF cause = "missingUrl" THEN Answer(400, "MISSING_URL")
  ELSE IF cause = "invalidUrl" THEN Answer(400, "INVALID_URL_FORMAT")
  ELSE IF cause = "nameNotResolved" THEN Answer(400, "DOMAIN_NOT_FOUND")
  ELSE IF cause = "notFound" THEN Answer(404, "PAGE_NOT_FOUND")
  ELSE IF cause = "forbidden" THEN Answer(403, "ACCESS_FORBIDDEN")
  ELSE IF cause = "connectionRefused" THEN Answer(503, "CONNECTION_REFUSED")
  ELSE IF cause = "connectionTimedOut" THEN Answer(504, "CONNECTION_TIMEOUT")
  ELSE IF cause = "navigationTimeout" THEN Answer(504, "GATEWAY_TIMEOUT")
  ELSE IF cause = "networkChanged" THEN Answer(503, "NETWORK_CHANGED")
  ELSE IF cause = "certificate" THEN Answer(526, "SSL_ERROR")
  ELSE IF cause = "aborted" THEN Answer(500, "REQUEST_ABORTED")
  ELSE IF cause = "protocol" THEN Answer(500, "PROTOCOL_ERROR")
  ELSE Answer(500, "INTERNAL_ERROR")

\* C19: every error response carries the code and the HTTP status the README
\* table gives for the cause of the failure.
C19_ErrorCodeByCause ==
  (response # NoResult /\ response.body.status = "error") =>
    Answer(response.http, response.body.code) = ReadmeTable(response.cause)

\* What the handler does guarantee: the table is followed when the URL holds
\* neither "404" nor "403", and for the causes tested before these two markers.
ErrorCodeByCauseWithoutDigits ==
  (/\ response # NoResult
   /\ response.body.status = "error"
   /\ \/ response.url = Url_a
      \/ response.cause \in {"missingUrl", "invalidUrl", "networkChanged", "navigationTimeout",
                             "nameNotResolved", "connectionRefused", "connectionTimedOut",
                             "notFound"})
    => Answer(response.http, response.body.code) = ReadmeTable(response.cause)


\* The values of tagCounts added up.
SumOfTagCounts(tagCounts) ==
  LET sum[n \in 0..Len(tagCounts)] == IF n = 0 THEN 0 ELSE sum[n - 1] + tagCounts[n].count
  IN  sum[Len(tagCounts)]

\* C21: after the first definition of extractTypography, duplicatesRemoved is the
\* number of considered (allowlisted) elements minus the number of groups, the
\* values of tagCounts add up to the number of considered elements, and
\* totalTagsFound is the number of distinct tags in tagCounts.
C21_MetaCountersAgree ==
  phase = "typographyDone" =>
    /\ meta.duplicatesRemoved = Cardinality(RelevantIndexes) - Len(typography)
    /\ SumOfTagCounts(meta.tagCounts) = Cardinality(RelevantIndexes)
    /\ meta.totalTagsFound =
         Cardinality({meta.tagCounts[k].tag : k \in 1..Len(meta.tagCounts)})

\* A document with a skipped element, a duplicate and two distinct tags.
C21_Witness ==
  /\ phase = "typographyDone"
  /\ Len(page.elements) = 3
  /\ meta.duplicatesRemoved = 1
  /\ Len(typography) = 1
  /\ \E i \in 1..3 : tagOf(page.elements[i]) \notin relevantTags


\* The tag and the five grouping properties of an element, and of a group.
GroupingTuple(el) ==
  <<tagOf(el), firstFontFamily(el.fontFamily), Trim(el.fontSize), Trim(el.fontWeight),
    Trim(el.lineHeight), Trim(el.letterSpacing)>>

TupleOfGroup(g) ==
  <<g.tag, g.fontFamily, g.fontSize, g.fontWeight, g.lineHeight, g.letterSpacing>>

\* C27: two considered elements are counted in the same group exactly when they
\* have the same tag and equal values of the five grouping properties: every
\* group counts the elements that agree with it on that tuple and no others,
\* every considered element agrees with exactly one group, also when a value
\* holds the separator "|" of the key.
C27_GroupedByTagAndFive ==
  phase = "typographyDone" =>
    LET considered == [i \in RelevantIndexes |-> GroupingTuple(page.elements[i])]
        groups == [k \in 1..Len(typography) |-> TupleOfGroup(typography[k])]
    IN  /\ \A k \in 1..Len(typography) :
             typography[k].count
               = Cardinality({i \in RelevantIndexes : considered[i] = groups[k]})
        /\ \A i \in RelevantIndexes :
             Cardinality({k \in 1..Len(typography) : groups[k] = considered[i]}) = 1

\* A document where the family "Arial|16px" stands next to the family Arial at
\* 16px and next to an element that differs in letter-spacing alone: three groups.
C27_Witness ==
  /\ phase = "typographyDone"
  /\ \E i, j, k \in 1..Len(page.elements) :
       /\ page.elements[i] = El_p
       /\ page.elements[j] = El_pBar
       /\ page.elements[k] = El_pSpaced
  /\ Len(typography) = 3
  /\ \A k \in 1..3 : typography[k].count = 1


\* The cache holds an entry for the URL whose age is below the TTL.
HoldsFresh(url) ==
  /\ url \in ValidUrls
  /\ ~cache[url].isNull
  /\ clock - cache[url].timestamp < CACHE_TTL

\* The cache holds an entry for the URL whose age has reached the TTL.
HoldsExpired(url) ==
  /\ url \in ValidUrls
  /\ ~cache[url].isNull
  /\ clock - cache[url].timestamp >= CACHE_TTL

\* The step answers the arriving request with the cached data, no browser started.
AnsweredFromCache ==
  /\ requests' = requests
  /\ response'.id = served'
  /\ ~response'.launched
  /\ response'.body.status = "success"
  /\ response'.body = cache[response'.url].data

\* C22: a request without nocache=true is answered from the cache, no browser
\* launched, exactly when the cache holds an entry for its URL younger than the
\* TTL; an entry that has reached the TTL is not served: the next such request
\* for its URL deletes it and starts a new scrape.
C22_ServedWhileFresh ==
  [][(served' = served + 1 /\ Arriving.nocache # Flag_true) =>
       /\ AnsweredFromCache <=> HoldsFresh(Arriving.url)
       /\ HoldsExpired(Arriving.url) =>
            /\ cache'[Arriving.url].isNull
            /\ Arriving \in requests' \ requests
            /\ Arriving.id = served'
            /\ response' = response]_vars

\* The second request finds the entry of the first exactly one TTL old: the entry
\* is gone and the browser of the second request is running.
C22_Witness ==
  /\ response # NoResult
  /\ response.id = 1
  /\ response.launched
  /\ response.body.status = "success"
  /\ response.nocache # Flag_true
  /\ clock = CACHE_TTL
  /\ cache[response.url].isNull
  /\ \E r \in requests : r.id = 2 /\ r.url = response.url /\ r.nocache # Flag_true


\* The step stores, under the URL, the result of a scrape of that URL that
\* succeeds in this step for a request that uses the cache, stamped with the
\* instant of the step.
StoresOwnScrape(u) ==
  /\ ~cache'[u].isNull
  /\ cache'[u].data = response'.body
  /\ cache'[u].timestamp = clock'
  /\ response'.launched
  /\ response'.body = ScrapeResult(response'.id, u)
  /\ response'.url = u
  /\ response'.nocache # Flag_true
  /\ \E r \in requests \ requests' : r.id = response'.id /\ r.url = u

\* The step deletes the expired entry of the URL for an arriving request that
\* uses the cache.
DeletesExpired(u) ==
  /\ cache'[u].isNull
  /\ HoldsExpired(u)
  /\ served' = served + 1
  /\ Arriving.url = u
  /\ Arriving.nocache # Flag_true

\* C26: every cache entry maps its URL to a result with status "success" of a
\* finished scrape of that URL, stamped with the instant that scrape completed;
\* an entry changes only when such a scrape of a request that uses the cache
\* stores it or when a request that uses the cache deletes it expired: a failed
\* request stores nothing and a request with nocache=true changes nothing.
C26_CacheHoldsOwnScrapes ==
  /\ [](\A u \in ValidUrls :
          ~cache[u].isNull =>
            /\ cache[u].data.status = "success"
            /\ cache[u].data.url = u
            /\ cache[u].data.scrape \in 1..served
            /\ \A r \in requests : r.id # cache[u].data.scrape
            /\ cache[u].timestamp <= clock)
  /\ [][\A u \in ValidUrls :
          cache'[u] # cache[u] => StoresOwnScrape(u) \/ DeletesExpired(u)]_vars

\* The first request filled the cache; a later request with nocache=true for the
\* same URL has been answered after a scrape, and the entry is still the first one.
C26_Witness ==
  /\ response # NoResult
  /\ response.id = 2
  /\ response.nocache = Flag_true
  /\ response.launched
  /\ response.url \in ValidUrls
  /\ ~cache[response.url].isNull
  /\ cache[response.url].data = ScrapeResult(1, response.url)
  /\ cache[response.url].timestamp < clock


(***************************************************************************)
(* Claims on retry and on the calls of scrapeWebsite.                      *)
(***************************************************************************)
\* The calls of fn retry may make: maxRetries, none when it is NaN.
AllowedCalls == IF maxRetriesArgument = NaN THEN 0 ELSE maxRetriesArgument

\* The calls of scrapeWebsite that are inside try / catch / finally.
Running == {id \in 1..MaxRequests : handlers[id].pc \notin {"absent", "done"}}

\* retry has thrown the error of an attempt, which the catch block caught.
RetryThrew(h) == h.caught.attempt >= 1

\* C23: retry calls fn at most maxRetries times; it returns on the first call
\* that succeeds, without another call; a wait lies between two consecutive
\* attempts and none follows the last one; and what it throws, after maxRetries
\* failed calls, is the error of the last attempt.
C23_RetryBounded ==
  /\ [](\A id \in Running :
          LET h == handlers[id]
          IN  /\ h.calls <= AllowedCalls
              /\ h.attempt = h.calls
              /\ h.pc = "backoff" => h.waits = h.calls /\ h.calls < AllowedCalls
              /\ h.pc = "goto" => h.waits = h.calls - 1
              /\ h.pc = "extract" => h.calls >= 1 /\ h.waits = h.calls - 1
              /\ RetryThrew(h) =>
                   /\ h.caught = h.lastError
                   /\ h.caught.attempt = h.calls
                   /\ h.calls = AllowedCalls
                   /\ h.waits = h.calls - 1)
  /\ [][\A id \in Running :
          LET h == handlers[id]
              k == handlers'[id]
          IN  k.pc # "done" =>
                /\ k.calls \in {h.calls, h.calls + 1}
                /\ k.calls = h.calls + 1 => h.pc = (IF h.calls = 0 THEN "setup" ELSE "backoff")
                /\ (h.pc = "goto" /\ k.pc = "extract") =>
                     k.calls = h.calls /\ k.waits = h.waits /\ k.lastError = h.lastError
                /\ h.pc \in {"extract", "close"} => k.calls = h.calls /\ k.waits = h.waits
                /\ (h.pc = "goto" /\ k.lastError # h.lastError) =>
                     /\ k.lastError.attempt = h.calls
                     /\ k.pc = "backoff" \/ k.caught = k.lastError]_vars

\* With MAX_RETRIES=2, both calls of fn have failed, one wait between them, and
\* the catch block holds the error of the second.
C23_Witness ==
  \E id \in Running :
    /\ env.MAX_RETRIES = Env_two
    /\ handlers[id].pc = "close"
    /\ handlers[id].calls = 2
    /\ handlers[id].waits = 1
    /\ handlers[id].caught.attempt = 2


\* C25: every request scrapeWebsite handles receives exactly one response: no
\* request is answered twice, and a call that is over has answered its request,
\* whatever MAX_RETRIES and RETRY_DELAY are.
C25_ExactlyOneResponse ==
  \A id \in 1..MaxRequests :
    /\ handlers[id].answered <= 1
    /\ handlers[id].pc = "done" => handlers[id].answered = 1

\* What the handler does guarantee: no request is answered twice, and a call that
\* is over has answered unless retry threw undefined, which it does exactly when
\* MAX_RETRIES allows no attempt.
AnsweredUnlessNoAttempt ==
  \A id \in 1..MaxRequests :
    /\ handlers[id].answered <= 1
    /\ handlers[id].pc = "done" =>
         /\ handlers[id].answered = 1 <=> handlers[id].outcome = "returned"
         /\ handlers[id].outcome = "rejected" => AllowedCalls = 0
         /\ AllowedCalls >= 1 => handlers[id].answered = 1


\* C24: every browser a request launches is in the end closed, by that request,
\* however the request ends and however the calls interleave: a browser runs only
\* while the call that launched it does, it changes only from not started to
\* running and from running to closed by its own call, and from some point on it
\* is not running any more; a request answered on arrival (validation error,
\* cached result) launches none.
C24_BrowserClosedByOwner ==
  /\ [](\A id \in 1..MaxRequests :
          /\ browsers[id].closedBy \in {0, id}
          /\ browsers[id].state = "closed" <=> browsers[id].closedBy = id
          /\ browsers[id].state = "open" =>
               /\ handlers[id].pc \in {"setup", "goto", "backoff", "extract", "close"}
               /\ handlers[id].browser = id
          /\ handlers[id].pc = "done" =>
               browsers[id].state = (IF handlers[id].browser = 0 THEN "none" ELSE "closed")
          /\ handlers[id].url \notin ValidUrls => browsers[id].state = "none")
  /\ [][(served' = served + 1 /\ requests' = requests) =>
          /\ handlers'[served'].pc = "done"
          /\ handlers'[served'].browser = 0
          /\ browsers' = browsers]_vars
  /\ [][\A id \in 1..MaxRequests :
          browsers'[id] # browsers[id] =>
            \/ browsers[id].state = "none" /\ browsers'[id].state = "open"
            \/ /\ browsers[id].state = "open"
               /\ browsers'[id] = [state |-> "closed", closedBy |-> id]]_vars
  /\ \A id \in 1..MaxRequests : <>[](browsers[id].state # "open")

\* The second call has closed its browser after an error with no response sent,
\* while the browser of the first call is still running.
C24_Witness ==
  /\ browsers[1].state = "open"
  /\ browsers[2].state = "closed"
  /\ browsers[2].closedBy = 2
  /\ handlers[2].pc = "done"
  /\ handlers[2].outcome = "rejected"

====
